---- MODULE Spec2Model ----
(***************************************************************************)
(* framework-powerd: the power-mode decision engine (cmd/framework-powerd/ *)
(* main.go, runServer), the PowerManager and the ProcessPauser             *)
(* (internal/power/manager.go), as state machines.                         *)
(*                                                                         *)
(* Spec           startup detection and the three detector goroutines of  *)
(*                runServer (idle ticker, remote-play poller, game        *)
(*                poller) running their callbacks and updatePowerState    *)
(*                concurrently, one source statement per step (the        *)
(*                closure variables carry no lock).                       *)
(* SpecDetectors  the same goroutines once startup has found no game.     *)
(* SpecRemotePlay the remote-play detector's scans and callbacks while    *)
(*                virtual controllers come and go.                        *)
(* SpecPM         the PowerManager under concurrent callers: two API      *)
(*                requests and the idle goroutine.                        *)
(* SpecPauser     the ProcessPauser driven through Pause, Resume and      *)
(*                SyncState while processes fork and exit.                *)
(* SpecSignals    the same where kill(2) is refused for some processes.   *)
(* SpecRoot       SteamDetector.findGameRoot on any process table and any *)
(*                command names (internal/detector/steam.go).             *)
(* SpecTree       the ProcessPauser on any process table.                 *)
(* SpecIdle       the IdleMonitor's ticker against the wall clock and     *)
(*                ResetActivity (internal/monitor/idle.go).               *)
(* SpecCountdown  the same with the clock followed below the second and   *)
(*                the idle countdown of the status.                       *)
(* SpecActivity   two device watchers in their read loop, the wall clock  *)
(*                and ResetActivity.                                      *)
(* SpecWatch      the registration, dedup, open, read and clean-up of     *)
(*                the watchers of a gamepad's event and js nodes.         *)
(* SpecStats      MatchGroup on any configuration of two groups and any   *)
(*                request IP (internal/ollama/stats.go).                  *)
(* SpecEnergy     the PowerMonitor's hourly energy ring under samples     *)
(*                and status reads (internal/power/monitor.go).           *)
(* SpecApply      one API client sending any request to /mode on any      *)
(*                machine: each external action may fail there.           *)
(* SpecModes      two API clients changing the mode concurrently on a     *)
(*                machine where every external action succeeds.           *)
(* SpecEdges      the game detector's polls with its callbacks recorded,  *)
(*                next to the remote-play detector.                       *)
(* SpecLocks      the daemon's goroutines followed through their mutex    *)
(*                calls only.                                             *)
(* SpecOllama     the Ollama monitor's request recorder and inactivity    *)
(*                timer acting on the PowerManager.                       *)
(* SpecWalk       findGameRoot's loop, one iteration per step, on any     *)
(*                parent table, cyclic ones included.                     *)
(***************************************************************************)
EXTENDS Integers, Sequences, FiniteSets, TLC

\* ---------------------------------------------------------------- bounds
\* Process ids of the modelled process table are 2..MaxPID (1 is init).
MaxPID == 4
\* Spec follows the detectors through at most MaxEvents notifications (idle or
\* active edge, remote-play start or stop, game start or stop) after startup.
MaxEvents == 2
\* The idle timeout (IdleMonitor.Timeout) in seconds, and the last second
\* the wall clock reaches.
Timeout == 2
MaxTime == 5
\* A read of a joystick node returns 1..MaxBatch events (the buffer of
\* idle.go:168 has room for 8), and a path is registered for watching by up
\* to MaxRegs goroutines at a time.
MaxBatch == 2
MaxRegs == 2
\* The power monitor is followed through MaxRolls hour rollovers; a sample
\* arrives up to MaxGap hours after the current bucket was opened, and the
\* samples of one hour add up to at most MaxEnergy joules.
MaxRolls == 170
MaxGap == 2
MaxEnergy == 2
\* The wall clock is followed in steps of 1/SubSecond second.
SubSecond == 2
\* A group of the Ollama configuration lists up to MaxEntries entries.
MaxEntries == 2

PIDs == 2..MaxPID
\* The goroutines of runServer that run callbacks, and two HTTP request
\* goroutines (net/http serves every request on its own goroutine).
Detectors == {"idle", "rp", "steam"}
Callers == {"api1", "api2"}
Threads == Detectors \cup Callers

VARIABLES
    \* runServer closure variables (main.go:110-113)
    isIdle, isRemotePlay, isGameRunning, gamePID,
    \* detector-local state: runTicker's isIdle, RemotePlayDetector.isActive,
    \* SteamDetector.LastPID
    tickIdle, rpActive, LastPID,
    \* ProcessPauser fields, and the error its last Pause or Resume returned
    isPaused, pausedPIDs, lastErr,
    \* PowerManager fields: currentMode, the SetState facts, mu (its holder)
    currentMode, pmFacts, pmMu,
    \* the operating system: parent pid of every live process (0: no such
    \* process), the processes in state T, the profile powerprofilesctl holds
    parent, stopped, sysProfile,
    \* control: position of every goroutine, its PowerManager call frame
    \* (requested mode; 0: no call, 1: at mu.Lock, 2: applying the external
    \* actions), the last HTTP response of every request goroutine
    pc, pmMode, pmStep, resp,
    \* history: what updatePowerState read and which calls it made in the
    \* current callback, the external actions of a request's mode call, the
    \* signals of the last pauser operation, and that operation with the
    \* state it met
    rd, calls, issued, lastSignals, lastOp,
    \* the number of detector notifications so far
    events,
    \* the command name of every process (field 2 of /proc/<pid>/stat), and
    \* the last call of findGameRoot: its argument and what it returned
    comm, gameRoot,
    \* IdleMonitor: the wall clock in seconds, lastActivity, runTicker's
    \* position (the value it loaded from lastActivity, or -1 between
    \* ticks) and the callbacks it has made
    now, lastActivity, tickLast, cbLog,
    \* IdleMonitor: the watchedDevices map (the paths it holds true for),
    \* the position of every watchDevice goroutine, the time a goroutine
    \* has read and is about to store, and what its last read returned
    watchedDevices, wpc, wnow, wread,
    \* PowerMonitor: hourlyEnergy, hourIndex, the whole hours since
    \* lastHourTime; history: the rollovers so far, the energy added during
    \* the hours of HotHours, the last sample (its energy and the hours
    \* since lastHourTime it met) and the last GetStatus result
    hourlyEnergy, hourIndex, sinceHour, rolls, ledger, lastSample, report,
    \* the machine: the external actions that can fail on it, and the
    \* power/control attribute of its network devices; history: the
    \* external actions that failed in the mode call of a request, for the
    \* requests whose failures are followed
    flaky, netPower, failed,
    \* the machine: the processes kill(2) fails on (EPERM)
    denied,
    \* the wall clock's part of a second, in 1/SubSecond s, and the last
    \* result of GetTimeUntilIdle, in 1/SubSecond s
    frac, untilIdle,
    \* the machine: the virtual controllers plugged in; whether the idle
    \* monitor's hotplug watcher runs; history: the js paths the
    \* remote-play detector's scans have returned in this session, and those
    \* a watcher was started for (by AddDevice or by the hotplug watcher)
    plugged, hotplug, discovered, added,
    \* the Ollama monitor: the configured groups, the IP of the request at
    \* hand and the group found for it; lastRequest, in seconds of the wall
    \* clock, and the time powersaveTimer is set to fire at
    groups, reqIP, matched, lastRequest, powersaveTimer

engineVars == <<isIdle, isRemotePlay, isGameRunning, gamePID, tickIdle, rpActive, LastPID>>
pauserVars == <<isPaused, pausedPIDs, lastErr, lastSignals, lastOp>>
pmVars == <<currentMode, pmFacts, pmMu, sysProfile, pmMode, pmStep, issued>>
osVars == <<parent, stopped>>
ctlVars == <<pc, rd, calls, resp, events>>
detVars == <<comm, gameRoot>>
tickVars == <<now, lastActivity, tickLast, cbLog>>
watchVars == <<watchedDevices, wpc, wnow, wread>>
energyVars == <<hourlyEnergy, hourIndex, sinceHour, rolls, ledger, lastSample, report>>
pmEnvVars == <<flaky, netPower, failed, denied>>
countVars == <<frac, untilIdle>>
rpVars == <<plugged, hotplug, discovered, added>>
statsVars == <<groups, reqIP, matched, lastRequest, powersaveTimer>>
sideVars == <<rpVars, statsVars>>
auxVars == <<energyVars, pmEnvVars, countVars, sideVars>>
monVars == <<detVars, tickVars, watchVars, auxVars>>
vars == <<engineVars, pauserVars, pmVars, osVars, ctlVars, monVars>>

\* ------------------------------------------------------------ sequences
Range(s) == {s[i] : i \in 1..Len(s)}

RECURSIVE SetToSortedSeq(_)
\* os.ReadDir returns the entries sorted by name; pids of one digit sort
\* numerically.
SetToSortedSeq(S) ==
    IF S = {} THEN <<>>
    ELSE LET m == CHOOSE x \in S : \A y \in S : x <= y
         IN <<m>> \o SetToSortedSeq(S \ {m})

\* -------------------------------------------------------- process table
Alive(par) == {p \in DOMAIN par : par[p] # 0}

\* tree[ppid], manager.go:406-448: the pids whose stat names ppid as parent,
\* in directory order.
Children(par, p) == SetToSortedSeq({c \in DOMAIN par : par[c] = p})

RECURSIVE BFS(_, _, _)
\* manager.go:455-462: pop the head, append its children to the results and
\* to the queue.
BFS(par, queue, results) ==
    IF queue = <<>> THEN results
    ELSE LET children == Children(par, Head(queue))
         IN BFS(par, Tail(queue) \o children, results \o children)

\* (mutant) the root is counted among its descendants
findAllDescendants_WithRoot(par, root) == BFS(par, <<root>>, <<root>>)

\* (mutant) the traversal stops at the children of the root
findAllDescendants_ChildrenOnly(par, root) == Children(par, root)

\* manager.go:404-465
findAllDescendants(par, root) == BFS(par, <<root>>, <<>>)

\* (mutant) the descendants are left out
Targets_RootOnly(par, root) == <<root>>

\* (mutant) the root is left out of the recorded set
Targets_DescendantsOnly(par, root) == findAllDescendants(par, root)

\* manager.go:314 (Pause) and :393 (SyncState)
Targets(par, root) == <<root>> \o findAllDescendants(par, root)

\* kill(pid, sig) succeeds on a live process that the daemon may signal.
Reached(par, pid) == pid \in Alive(par) \ denied

RECURSIVE UntilRefused(_, _)
UntilRefused(par, targets) ==
    IF targets = <<>> \/ ~Reached(par, Head(targets)) THEN {}
    ELSE {Head(targets)} \cup UntilRefused(par, Tail(targets))

\* (mutant) the loop over the targets ends at the first kill that fails
Delivered_StopAtFailure(par, targets) == UntilRefused(par, targets)

\* manager.go:318-323 (Pause) and :342-346 (Resume): every target is
\* signalled, the error of a kill is logged (Pause) or dropped (Resume).
Delivered(par, targets) == {pid \in Range(targets) : Reached(par, pid)}

\* -------------------------------------------------------- SteamDetector
\* Command names, as far as findGameRoot tells them apart.
Names == {"game", "reaper", "wineserver", "wineserver-reaper"}

\* strings.Contains(name, sub) on these names
Contains(name, sub) ==
    \/ name = sub
    \/ name = "wineserver-reaper" /\ sub \in {"wineserver", "reaper"}

\* steam.go:125, the bound of the walk
MaxDepth == 10

\* (mutant) the reaper test made before the wineserver test
Classify_ReaperFirst(name) ==
    IF Contains(name, "reaper") THEN "reaper"
    ELSE IF Contains(name, "wineserver") THEN "wineserver"
    ELSE "other"

\* steam.go:132 and :138, in that order
Classify(name) ==
    IF Contains(name, "wineserver") THEN "wineserver"
    ELSE IF Contains(name, "reaper") THEN "reaper"
    ELSE "other"

RECURSIVE Walk(_, _, _, _, _, _)
\* steam.go:125-150, iteration i of the loop.  getProcessInfo fails on a
\* process that is gone.
Walk(par, names, pid, current, prev, i) ==
    IF i >= MaxDepth THEN pid
    ELSE IF current \notin Alive(par) THEN pid
    ELSE IF Classify(names[current]) = "wineserver" THEN current
    ELSE IF Classify(names[current]) = "reaper" THEN prev
    ELSE IF par[current] <= 1 THEN pid
    ELSE Walk(par, names, pid, par[current], current, i + 1)

\* steam.go:121-151
findGameRoot(par, names, pid) == Walk(par, names, pid, pid, pid, 0)

NoRoot == [pid |-> 0, root |-> 0]

\* steam.go:110-111: Detect has found pid (the highest pid with SteamAppId
\* in its environment) and asks for its pause root.
FindGameRoot(pid) ==
    /\ gameRoot' = [pid |-> pid, root |-> findGameRoot(parent, comm, pid)]
    /\ UNCHANGED <<auxVars, engineVars, pauserVars, pmVars, osVars, ctlVars, comm, tickVars, watchVars>>

\* findGameRoot statement by statement: its loop is followed one iteration
\* per step, with the locals current, prev and i, the number of calls of
\* getProcessInfo so far, and the value returned (0 while it runs).
NotWalking == [pid |-> 0, root |-> 0, current |-> 0, prev |-> 0, i |-> 0, visited |-> 0]

\* (mutant) the loop has no bound
LoopContinues_Always(i) == TRUE

\* steam.go:125, the loop's test
LoopContinues(i) == i < MaxDepth

\* steam.go:122-123
BeginWalk(pid) ==
    /\ gameRoot = NotWalking
    /\ gameRoot' = [pid |-> pid, root |-> 0, current |-> pid, prev |-> pid, i |-> 0, visited |-> 0]
    /\ UNCHANGED <<auxVars, engineVars, pauserVars, pmVars, osVars, ctlVars, comm, tickVars, watchVars>>

\* steam.go:125-150: the loop's test and one run of its body, or the return
\* after the loop.
WalkStep ==
    /\ gameRoot.pid # 0 /\ gameRoot.root = 0
    /\ LET f == gameRoot
           seen == [f EXCEPT !.visited = @ + 1]
       IN gameRoot' =
            IF ~LoopContinues(f.i) THEN [f EXCEPT !.root = f.pid]
            ELSE IF f.current \notin Alive(parent) THEN [seen EXCEPT !.root = f.pid]
            ELSE IF Classify(comm[f.current]) = "wineserver" THEN [seen EXCEPT !.root = f.current]
            ELSE IF Classify(comm[f.current]) = "reaper" THEN [seen EXCEPT !.root = f.prev]
            ELSE IF parent[f.current] <= 1 THEN [seen EXCEPT !.root = f.pid]
            ELSE [seen EXCEPT !.prev = f.current, !.current = parent[f.current], !.i = @ + 1]
    /\ UNCHANGED <<auxVars, engineVars, pauserVars, pmVars, osVars, ctlVars, comm, tickVars, watchVars>>

\* steam.go:72-75: Detect could not read /proc.
ScanFailed == [pid |-> 0, root |-> 0, err |-> TRUE]

NoGame == [pid |-> 0, root |-> 0, err |-> FALSE]

\* steam.go:71-115: what Detect returns on the process table as it stands:
\* an error, no game, or the pause root of the highest pid that has
\* SteamAppId in its environment (any live process).
DetectOutcomes ==
    {ScanFailed, NoGame} \cup
    {[pid |-> p, root |-> findGameRoot(parent, comm, p), err |-> FALSE] : p \in Alive(parent)}

\* (mutant) a game is reported only when none was reported before
IsNewGame_OnlyAfterStop(last, pid) == last = 0

\* steam.go:55
IsNewGame(last, pid) == last # pid

OnGameStart(pid) == [cb |-> "onGameStart", pid |-> pid]
OnGameStop == [cb |-> "onGameStop", pid |-> 0]

\* SteamDetector.check, steam.go:46-68, one poll; the callbacks it makes are
\* recorded in call order.  The poll's result is kept in gameRoot.
SteamDetectorCheck ==
    /\ \E r \in DetectOutcomes :
          /\ gameRoot' = r
          /\ IF r.err
             THEN UNCHANGED <<LastPID, cbLog>>
             ELSE IF r.root > 0
             THEN IF IsNewGame(LastPID, r.root)
                  THEN /\ Len(cbLog) <= MaxEvents
                       /\ LastPID' = r.root
                       /\ cbLog' = Append(cbLog, OnGameStart(r.root))
                  ELSE UNCHANGED <<LastPID, cbLog>>
             ELSE IF LastPID > 0
                  THEN /\ Len(cbLog) <= MaxEvents
                       /\ LastPID' = 0
                       /\ cbLog' = Append(cbLog, OnGameStop)
                  ELSE UNCHANGED <<LastPID, cbLog>>
    /\ UNCHANGED <<isIdle, isRemotePlay, isGameRunning, gamePID, tickIdle, rpActive>>
    /\ UNCHANGED <<pauserVars, pmVars, osVars, ctlVars, comm, watchVars, auxVars>>
    /\ UNCHANGED <<now, lastActivity, tickLast>>

\* ------------------------------------------------------- ProcessPauser
\* Every method holds p.mu from entry to return (defer Unlock), so each is
\* one step.
NoSignals == [sig |-> "none", pids |-> <<>>]
NoOp == [op |-> "none", arg |-> 0, was |-> FALSE, set |-> <<>>, tree |-> <<>>, wasT |-> FALSE]

\* The operation a pauser method records: its name and argument, and what it
\* met on entry (isPaused, pausedPIDs, the process table, whether the
\* process of its argument is in state T).
Entry(op, arg) ==
    [op |-> op, arg |-> arg, was |-> isPaused, set |-> pausedPIDs, tree |-> parent,
     wasT |-> arg \in stopped]

\* (mutant) the guard of manager.go:304 never taken
AlreadyPaused_Never(paused) == FALSE

\* manager.go:304
AlreadyPaused(paused) == paused

\* (mutant) the continue signals skip the head of the recorded set
ResumeTargets_SkipRoot(pids) == Tail(pids)

\* manager.go:342: the pids Resume signals
ResumeTargets(pids) == pids

\* manager.go:300-328
Pause(rootPID) ==
    /\ lastOp' = Entry("Pause", rootPID)
    /\ IF AlreadyPaused(isPaused)
       THEN /\ lastSignals' = NoSignals
            /\ lastErr' = "nil"
            /\ UNCHANGED <<isPaused, pausedPIDs, stopped>>
       ELSE IF rootPID <= 0
       THEN /\ lastSignals' = NoSignals
            /\ lastErr' = "invalid pid"
            /\ UNCHANGED <<isPaused, pausedPIDs, stopped>>
       ELSE LET targets == Targets(parent, rootPID)
            IN /\ stopped' = stopped \cup Delivered(parent, targets)
               /\ isPaused' = TRUE
               /\ pausedPIDs' = targets
               /\ lastSignals' = [sig |-> "STOP", pids |-> targets]
               /\ lastErr' = "nil"

\* manager.go:331-351
Resume ==
    /\ lastOp' = Entry("Resume", 0)
    /\ lastErr' = "nil"
    /\ IF ~isPaused
       THEN /\ lastSignals' = NoSignals
            /\ UNCHANGED <<isPaused, pausedPIDs, stopped>>
       ELSE LET targets == ResumeTargets(pausedPIDs)
            IN /\ stopped' = stopped \ Delivered(parent, targets)
               /\ isPaused' = FALSE
               /\ pausedPIDs' = <<>>
               /\ lastSignals' = [sig |-> "CONT", pids |-> targets]

\* (mutant) the pauser always answers that it runs
IsPaused_Never == FALSE

\* manager.go:354-358
IsPaused == isPaused

\* manager.go:361-400.  /proc/<pid>/stat is unreadable when the process is
\* gone; its state field is T exactly when the process is stopped.
SyncState(rootPID) ==
    /\ lastOp' = Entry("SyncState", rootPID)
    /\ lastSignals' = NoSignals
    /\ UNCHANGED <<stopped, lastErr>>
    /\ IF rootPID \notin Alive(parent)
       THEN UNCHANGED <<isPaused, pausedPIDs>>
       ELSE IF rootPID \in stopped
            THEN /\ isPaused' = TRUE
                 /\ pausedPIDs' = Targets(parent, rootPID)
            ELSE /\ isPaused' = FALSE
                 /\ pausedPIDs' = <<>>

\* -------------------------------------------------------- PowerManager
Modes == {"performance", "powersave"}

\* (mutant) the network step runs before the auto-tuning
ApplySequence_NetFirst(mode) ==
    IF mode = "performance"
    THEN <<"profile", "cpupref", "scheduler", "aspm", "latency">>
    ELSE <<"profile", "cpupref", "scheduler", "aspm", "network", "powertop">>

\* The external actions of a mode change, in program order: part_005:171-190
\* (SetPerformance), part_005:208-230 (SetPowersave).  manager.go holds the
\* same two sequences without the closing network step.
ApplySequence(mode) ==
    IF mode = "performance"
    THEN <<"profile", "cpupref", "scheduler", "aspm", "latency">>
    ELSE <<"profile", "cpupref", "scheduler", "aspm", "powertop", "network">>

\* manager.go:134 and :171, the argument of powerprofilesctl set
ProfileOf(mode) == IF mode = "performance" THEN "performance" ELSE "power-saver"

FuncName(mode) == IF mode = "performance" THEN "SetPerformance" ELSE "SetPowersave"

\* (mutant) the comparison with the current mode never succeeds
AlreadyInMode_Never(cur, mode) == FALSE

\* manager.go:123 and :160
AlreadyInMode(cur, mode) == cur = mode

\* (mutant) the Unlock after the write is deferred to the return
HolderAfterModeWrite_Deferred(t) == t

\* manager.go:129 and :166: mu is unlocked right after the write of
\* currentMode, before the first external action.
HolderAfterModeWrite(t) == "none"

\* A call of SetPerformance (mode = "performance", manager.go:121) or
\* SetPowersave (manager.go:158) by goroutine t: the frame is pushed.
CallSetMode(t, mode) ==
    /\ pmMode' = [pmMode EXCEPT ![t] = mode]
    /\ pmStep' = [pmStep EXCEPT ![t] = 1]

\* manager.go:122-129 and :159-166: Lock, compare, write, Unlock.
SetModeLocked(t) ==
    /\ pmStep[t] = 1
    /\ pmMu = "none"
    /\ IF AlreadyInMode(currentMode, pmMode[t])
       THEN /\ pmStep' = [pmStep EXCEPT ![t] = 0]
            /\ pmMode' = [pmMode EXCEPT ![t] = ""]
            /\ UNCHANGED <<currentMode, pmMu>>
       ELSE /\ currentMode' = pmMode[t]
            /\ pmMu' = HolderAfterModeWrite(t)
            /\ pmStep' = [pmStep EXCEPT ![t] = 2]
            /\ UNCHANGED pmMode
    /\ calls' = [calls EXCEPT ![t] = Append(@,
            [op |-> FuncName(pmMode[t]), mode |-> pmMode[t], arg |-> 0,
             before |-> currentMode, after |-> currentMode', was |-> isPaused,
             paused |-> isPaused, sent |-> NoSignals])]
    /\ UNCHANGED <<engineVars, pauserVars, osVars, pmFacts, sysProfile, issued, pc, rd, resp, events>>
    /\ UNCHANGED monVars

ExternalActions ==
    {"profile", "cpupref", "scheduler", "aspm", "latency", "powertop", "network"}

RECURSIVE UpToFailure(_, _)
UpToFailure(seq, fails) ==
    IF seq = <<>> THEN <<>>
    ELSE IF Head(seq) \in fails THEN <<Head(seq)>>
    ELSE <<Head(seq)>> \o UpToFailure(Tail(seq), fails)

\* (mutant) the sequence is given up at the first action that fails
Attempted_StopAtFailure(seq, fails) == UpToFailure(seq, fails)

\* manager.go:134-152 and :171-189: an error of an external action is
\* logged (or dropped) and the next action follows.
Attempted(seq, fails) == seq

RECURSIVE NetAfter(_, _, _)
\* power/control of the network devices after the actions of seq, those of
\* fails without effect: powertop --auto-tune leaves every device at
\* "auto" (part_005:242-249), disableNetworkPowerSave writes "on"
\* (part_005:252-279).
NetAfter(seq, fails, net) ==
    IF seq = <<>> THEN net
    ELSE NetAfter(Tail(seq), fails,
                  IF Head(seq) \in fails THEN net
                  ELSE IF Head(seq) = "powertop" THEN "auto"
                  ELSE IF Head(seq) = "network" THEN "on"
                  ELSE net)

\* manager.go:131-154 and :168-191: the external actions of the mode change,
\* in program order, then the return.  None of them reads or writes a field
\* of the program; each is best effort (an error is logged or dropped), so
\* any of those that can fail on this machine may be without effect.
Apply(t) ==
    /\ pmStep[t] = 2
    /\ \E fails \in SUBSET (flaky \cap Range(ApplySequence(pmMode[t]))) :
          LET done == Attempted(ApplySequence(pmMode[t]), fails)
          IN /\ issued' = IF t \in DOMAIN issued
                          THEN [issued EXCEPT ![t] = done]
                          ELSE issued
             /\ failed' = IF t \in DOMAIN failed
                          THEN [failed EXCEPT ![t] = fails]
                          ELSE failed
             /\ sysProfile' = IF "profile" \in Range(done) \ fails
                              THEN ProfileOf(pmMode[t])
                              ELSE sysProfile
             /\ netPower' = NetAfter(done, fails, netPower)
    /\ pmStep' = [pmStep EXCEPT ![t] = 0]
    /\ pmMode' = [pmMode EXCEPT ![t] = ""]
    /\ pmMu' = IF pmMu = t THEN "none" ELSE pmMu
    /\ UNCHANGED <<engineVars, pauserVars, osVars, currentMode, pmFacts, ctlVars>>
    /\ UNCHANGED <<detVars, tickVars, watchVars, energyVars, countVars, sideVars, flaky, denied>>

\* manager.go:73-81
SetState(idle, remote, game, pid, paused) ==
    /\ pmMu = "none"
    /\ pmFacts' = [isIdle |-> idle, isRemotePlay |-> remote, isGameRunning |-> game,
                   gamePID |-> pid, isGamePaused |-> paused]

\* manager.go:95-113 (under RLock)
GetStatus == [Mode |-> currentMode, facts |-> pmFacts]

\* ------------------------------------------------------------ API server
\* Requests to /mode: the method, and the body as it decodes into
\* ModeRequest (server.go:89-91, :100): "garbage" is no JSON, any other body
\* is {"mode": <body>}.
Requests ==
    {[method |-> "POST", body |-> b] : b \in {"performance", "powersave", "auto", "", "garbage"}}
    \cup {[method |-> "GET", body |-> "performance"]}

\* the well-formed requests: a POST naming a mode, known or not
ModePosts == {req \in Requests : req.method = "POST" /\ req.body \in Modes \cup {"auto"}}

NoRequest == [method |-> "", body |-> ""]

\* (mutant) any decoded mode but "performance" is taken for powersave
Route_DefaultPowersave(req) ==
    IF req.method # "POST" THEN "405"
    ELSE IF req.body = "garbage" THEN "400"
    ELSE IF req.body = "performance" THEN "performance"
    ELSE "powersave"

\* server.go:94-114: the status HandleMode answers with before it touches
\* the PowerManager, or the mode it forwards.
Route(req) ==
    IF req.method # "POST" THEN "405"
    ELSE IF req.body = "garbage" THEN "400"
    ELSE IF req.body = "performance" THEN "performance"
    ELSE IF req.body = "powersave" THEN "powersave"
    ELSE "400"

\* server.go:93-114: a request is routed; a known mode calls SetPerformance
\* or SetPowersave, anything else is answered at once.
HandleMode(t, req) ==
    /\ pc[t] = "wait"
    /\ IF Route(req) \in Modes
       THEN /\ CallSetMode(t, Route(req))
            /\ pc' = [pc EXCEPT ![t] = "respond"]
            /\ calls' = [calls EXCEPT ![t] = <<>>]
            /\ issued' = [issued EXCEPT ![t] = <<>>]
            /\ failed' = IF t \in DOMAIN failed
                         THEN [failed EXCEPT ![t] = {}]
                         ELSE failed
            /\ resp' = [resp EXCEPT ![t] = [code |-> "", body |-> "", req |-> req]]
       ELSE /\ resp' = [resp EXCEPT ![t] = [code |-> Route(req), body |-> "error", req |-> req]]
            /\ UNCHANGED <<pmMode, pmStep, pc, calls, issued, failed>>
    /\ UNCHANGED <<engineVars, pauserVars, osVars, currentMode, pmFacts, pmMu, sysProfile, rd, events>>
    /\ UNCHANGED <<detVars, tickVars, watchVars, energyVars, countVars, sideVars, flaky, netPower, denied>>

\* server.go:123-125: SetPerformance/SetPowersave always return nil.
HandleModeRespond(t) ==
    /\ pc[t] = "respond"
    /\ pmStep[t] = 0
    /\ pc' = [pc EXCEPT ![t] = "wait"]
    /\ resp' = [resp EXCEPT ![t] = [code |-> "200", body |-> calls[t][1].op, req |-> resp[t].req]]
    /\ UNCHANGED <<engineVars, pauserVars, osVars, pmVars, rd, calls, events>>
    /\ UNCHANGED monVars

\* server.go:128-152 with manager.go:95-113
HandleStatus(t) ==
    /\ pc[t] = "wait"
    /\ pmMu = "none"
    /\ resp' = [resp EXCEPT ![t] = [code |-> "200", body |-> GetStatus, req |-> NoRequest]]
    /\ UNCHANGED <<engineVars, pauserVars, osVars, pmVars, pc, rd, calls, events>>
    /\ UNCHANGED monVars

\* ------------------------------------------------- decision engine (main)
NoReads == [idle |-> FALSE, rp |-> FALSE, game |-> FALSE, pw |-> FALSE, paused |-> FALSE]

\* (mutant) the remote-play override of main.go:130-135 left out
ShouldIdle_NoOverride(idle, rp, game) == idle

\* main.go:128-135
ShouldIdle(idle, rp, game) == idle /\ ~(rp /\ game)

\* main.go:141
PauseWanted(game, pid) == game /\ pid > 0

\* main.go:161-171
\* (mutant) the desktop fallback asks for the saving mode
DefaultActiveMode_Saver == "powersave"

\* manager.go:116-118: the mode SetDefaultActive asks for.
DefaultActiveMode == "performance"

ActiveMode(game, rp) == IF game \/ rp THEN "performance" ELSE DefaultActiveMode

\* What SteamDetector.Detect (steam.go:71-115) can return: the pause root of
\* a live game process, or 0.
DetectResults == {0} \cup Alive(parent)

Goto(t, label) == pc' = [pc EXCEPT ![t] = label]
At(t, label) == pc[t] = label /\ pmStep[t] = 0

Notify == events < MaxEvents /\ events' = events + 1

\* idle.go:264-276 with main.go:188 and :192: the ticker finds the idle time
\* across the timeout on the other side than its flag says, flips the flag
\* (local to runTicker) and calls onIdle/onActive, whose first statement
\* writes isIdle.
IdleEdge ==
    /\ At("idle", "wait")
    /\ Notify
    /\ tickIdle' = ~tickIdle
    /\ isIdle' = ~tickIdle
    /\ Goto("idle", "u128")
    /\ UNCHANGED <<isRemotePlay, isGameRunning, gamePID, rpActive, LastPID>>
    /\ UNCHANGED <<pauserVars, pmVars, osVars, rd, calls, resp>>
    /\ UNCHANGED monVars

\* RemotePlayDetector.check, part_002:43-66, with main.go:208-214 and :218:
\* on an edge the flag d.isActive flips and onStart/onStop writes
\* isRemotePlay (AddDevice starts watcher goroutines of the idle monitor and
\* touches nothing of the engine).
RemotePlayCheck ==
    /\ At("rp", "wait")
    /\ Notify
    /\ \E found \in BOOLEAN :
          /\ found # rpActive
          /\ rpActive' = found
          /\ isRemotePlay' = found
    /\ Goto("rp", "u128")
    /\ UNCHANGED <<isIdle, isGameRunning, gamePID, tickIdle, LastPID>>
    /\ UNCHANGED <<pauserVars, pmVars, osVars, rd, calls, resp>>
    /\ UNCHANGED monVars

\* The virtual controllers a streaming client can create: two with a js
\* handler, one (a virtual pad known by its name) without.
VirtualPads == {"js1", "js2", "pad"}

\* part_002:120-127: the js handler of a device's block, "" when it has none
JsPathOf(d) == IF d = "pad" THEN "" ELSE d

\* scanForVirtualDevices, part_002:70-140, on the devices present: the js
\* paths of the virtual controllers
FoundPaths(devices) == {JsPathOf(d) : d \in devices} \ {""}

\* A streaming client creates or removes a virtual controller.  The
\* hotplug watcher, when it runs, starts a watcher for a new js node
\* (idle.go:104-108); the watcher of a removed device ends at its read
\* error (idle.go:176-183).
PlugPad(d) ==
    /\ d \notin plugged
    /\ plugged' = plugged \cup {d}
    /\ added' = IF hotplug THEN added \cup FoundPaths({d}) ELSE added
    /\ UNCHANGED <<hotplug, discovered, statsVars>>
    /\ UNCHANGED <<energyVars, pmEnvVars, countVars>>
    /\ UNCHANGED <<engineVars, pauserVars, pmVars, osVars, ctlVars, detVars, tickVars, watchVars>>

UnplugPad(d) ==
    /\ d \in plugged
    /\ plugged' = plugged \ {d}
    /\ discovered' = discovered \ {JsPathOf(d)}
    /\ added' = added \ {JsPathOf(d)}
    /\ UNCHANGED <<hotplug, statsVars>>
    /\ UNCHANGED <<energyVars, pmEnvVars, countVars>>
    /\ UNCHANGED <<engineVars, pauserVars, pmVars, osVars, ctlVars, detVars, tickVars, watchVars>>

\* RemotePlayDetector.check, part_002:43-66, with the callbacks of
\* main.go:208-219: the scan; on the edge to active d.isActive is set and
\* onStart writes isRemotePlay, calls AddDevice for each path of the scan
\* and enters updatePowerState; on the edge to inactive onStop clears
\* isRemotePlay and enters updatePowerState; a scan during a session
\* changes nothing.
check ==
    /\ At("rp", "wait")
    /\ LET found == plugged # {}
           devices == FoundPaths(plugged)
       IN IF found
          THEN /\ discovered' = discovered \cup devices
               /\ IF ~rpActive
                  THEN /\ rpActive' = TRUE
                       /\ isRemotePlay' = TRUE
                       /\ added' = added \cup devices
                       /\ Goto("rp", "u128")
                  ELSE UNCHANGED <<rpActive, isRemotePlay, added, pc>>
          ELSE /\ UNCHANGED <<discovered, added>>
               /\ IF rpActive
                  THEN /\ rpActive' = FALSE
                       /\ isRemotePlay' = FALSE
                       /\ Goto("rp", "u128")
                  ELSE UNCHANGED <<rpActive, isRemotePlay, pc>>
    /\ UNCHANGED <<isIdle, isGameRunning, gamePID, tickIdle, LastPID>>
    /\ UNCHANGED <<pauserVars, pmVars, osVars, rd, calls, resp, events>>
    /\ UNCHANGED <<plugged, hotplug, statsVars, energyVars, pmEnvVars, countVars>>
    /\ UNCHANGED <<detVars, tickVars, watchVars>>

\* main.go:232-236, run by the main goroutine before it starts the game
\* detector's goroutine (the idle and remote-play goroutines already run).
StartupDetect ==
    /\ At("steam", "startup")
    /\ \E pid \in DetectResults :
          /\ LastPID' = pid
          /\ isGameRunning' = (pid > 0 \/ isGameRunning)
          /\ Goto("steam", IF pid > 0 THEN "st235" ELSE "wait")
    /\ UNCHANGED <<isIdle, isRemotePlay, gamePID, tickIdle, rpActive>>
    /\ UNCHANGED <<pauserVars, pmVars, osVars, rd, calls, resp, events>>
    /\ UNCHANGED monVars

\* SteamDetector.check, steam.go:46-68, with the first statement of the
\* callback it calls: main.go:251 (onGameStart) or :262 (onGameStop).
SteamCheck ==
    /\ At("steam", "wait")
    /\ Notify
    /\ \E pid \in DetectResults :
          \/ /\ pid > 0
             /\ LastPID # pid
             /\ LastPID' = pid
             /\ isGameRunning' = TRUE
             /\ Goto("steam", "g252")
          \/ /\ pid = 0
             /\ LastPID > 0
             /\ LastPID' = 0
             /\ isGameRunning' = FALSE
             /\ Goto("steam", "s263")
    /\ UNCHANGED <<isIdle, isRemotePlay, gamePID, tickIdle, rpActive>>
    /\ UNCHANGED <<pauserVars, pmVars, osVars, rd, calls, resp>>
    /\ UNCHANGED monVars

\* main.go:235 and :252
WriteGamePID ==
    /\ \/ At("steam", "st235") /\ Goto("steam", "st237")
       \/ At("steam", "g252") /\ Goto("steam", "g255")
    /\ gamePID' = LastPID
    /\ UNCHANGED <<isIdle, isRemotePlay, isGameRunning, tickIdle, rpActive, LastPID>>
    /\ UNCHANGED <<pauserVars, pmVars, osVars, rd, calls, resp, events>>
    /\ UNCHANGED monVars

\* main.go:237 and :255
CallSyncState ==
    /\ \/ At("steam", "st237") /\ Goto("steam", "st240")
       \/ At("steam", "g255") /\ Goto("steam", "u128")
    /\ SyncState(LastPID)
    /\ UNCHANGED <<engineVars, pmVars, parent, rd, calls, resp, events>>
    /\ UNCHANGED monVars

\* main.go:263
ClearGamePID ==
    /\ At("steam", "s263")
    /\ gamePID' = 0
    /\ Goto("steam", "s265")
    /\ UNCHANGED <<isIdle, isRemotePlay, isGameRunning, tickIdle, rpActive, LastPID>>
    /\ UNCHANGED <<pauserVars, pmVars, osVars, rd, calls, resp, events>>
    /\ UNCHANGED monVars

\* main.go:265
StopCheckPaused ==
    /\ At("steam", "s265")
    /\ Goto("steam", IF IsPaused THEN "s266" ELSE "u128")
    /\ UNCHANGED <<engineVars, pauserVars, pmVars, osVars, rd, calls, resp, events>>
    /\ UNCHANGED monVars

\* main.go:266
StopResume ==
    /\ At("steam", "s266")
    /\ Resume
    /\ Goto("steam", "u128")
    /\ UNCHANGED <<engineVars, pmVars, parent, rd, calls, resp, events>>
    /\ UNCHANGED monVars

\* updatePowerState, main.go:119-176, one statement per step, run by the
\* goroutine t whose callback called it.

\* main.go:128
ReadIdle(t) ==
    /\ At(t, "u128")
    /\ rd' = [rd EXCEPT ![t].idle = isIdle]
    /\ Goto(t, "u130")
    /\ UNCHANGED <<engineVars, pauserVars, pmVars, osVars, calls, resp, events>>
    /\ UNCHANGED monVars

\* main.go:130-137
Decide(t) ==
    /\ At(t, "u130")
    /\ rd' = [rd EXCEPT ![t].rp = isRemotePlay, ![t].game = isGameRunning]
    /\ Goto(t, IF ShouldIdle(rd[t].idle, isRemotePlay, isGameRunning) THEN "u141" ELSE "u155")
    /\ UNCHANGED <<engineVars, pauserVars, pmVars, osVars, calls, resp, events>>
    /\ UNCHANGED monVars

\* main.go:141
IdleCheckGame(t) ==
    /\ At(t, "u141")
    /\ rd' = [rd EXCEPT ![t].pw = PauseWanted(isGameRunning, gamePID)]
    /\ Goto(t, IF PauseWanted(isGameRunning, gamePID) THEN "u142" ELSE "u149")
    /\ UNCHANGED <<engineVars, pauserVars, pmVars, osVars, calls, resp, events>>
    /\ UNCHANGED monVars

\* main.go:142
IdleCheckPaused(t) ==
    /\ At(t, "u142")
    /\ rd' = [rd EXCEPT ![t].paused = IsPaused]
    /\ Goto(t, IF ~IsPaused THEN "u143" ELSE "u149")
    /\ UNCHANGED <<engineVars, pauserVars, pmVars, osVars, calls, resp, events>>
    /\ UNCHANGED monVars

\* main.go:143
IdlePause(t) ==
    /\ At(t, "u143")
    /\ Pause(gamePID)
    /\ calls' = [calls EXCEPT ![t] = Append(@,
            [op |-> "Pause", mode |-> "", arg |-> gamePID, before |-> currentMode,
             after |-> currentMode, was |-> isPaused, paused |-> isPaused',
             sent |-> lastSignals'])]
    /\ Goto(t, "u149")
    /\ UNCHANGED <<engineVars, pmVars, parent, rd, resp, events>>
    /\ UNCHANGED monVars

\* main.go:149
IdleSetPowersave(t) ==
    /\ At(t, "u149")
    /\ CallSetMode(t, "powersave")
    /\ Goto(t, "u175")
    /\ UNCHANGED <<engineVars, pauserVars, osVars, rd, calls, resp, events>>
    /\ UNCHANGED <<currentMode, pmFacts, pmMu, sysProfile, issued>>
    /\ UNCHANGED monVars

\* main.go:155
ActiveCheckPaused(t) ==
    /\ At(t, "u155")
    /\ rd' = [rd EXCEPT ![t].paused = IsPaused]
    /\ Goto(t, IF IsPaused THEN "u156" ELSE "u161")
    /\ UNCHANGED <<engineVars, pauserVars, pmVars, osVars, calls, resp, events>>
    /\ UNCHANGED monVars

\* main.go:156
ActiveResume(t) ==
    /\ At(t, "u156")
    /\ Resume
    /\ calls' = [calls EXCEPT ![t] = Append(@,
            [op |-> "Resume", mode |-> "", arg |-> 0, before |-> currentMode,
             after |-> currentMode, was |-> isPaused, paused |-> isPaused',
             sent |-> lastSignals'])]
    /\ Goto(t, "u161")
    /\ UNCHANGED <<engineVars, pmVars, parent, rd, resp, events>>
    /\ UNCHANGED monVars

\* main.go:161-171
ActiveSetMode(t) ==
    /\ At(t, "u161")
    /\ CallSetMode(t, ActiveMode(isGameRunning, isRemotePlay))
    /\ Goto(t, "u175")
    /\ UNCHANGED <<engineVars, pauserVars, osVars, rd, calls, resp, events>>
    /\ UNCHANGED <<currentMode, pmFacts, pmMu, sysProfile, issued>>
    /\ UNCHANGED monVars

\* main.go:175 (and :240 at startup); the callback returns to its detector.
PublishState(t) ==
    /\ \/ At(t, "u175")
       \/ t = "steam" /\ At(t, "st240")
    /\ SetState(isIdle, isRemotePlay, isGameRunning, gamePID, IsPaused)
    /\ Goto(t, "wait")
    /\ rd' = [rd EXCEPT ![t] = NoReads]
    /\ calls' = [calls EXCEPT ![t] = <<>>]
    /\ UNCHANGED <<engineVars, pauserVars, osVars, resp, events>>
    /\ UNCHANGED <<currentMode, pmMu, sysProfile, pmMode, pmStep, issued>>
    /\ UNCHANGED monVars

\* ------------------------------------------------ IdleMonitor: the ticker
\* (mutant) idle only when the idle time has passed the timeout
IsIdleAt_Strict(diff) == diff > Timeout

\* idle.go:264
IsIdleAt(diff) == diff >= Timeout

\* (mutant) a callback at every tick
CallbackDue_Always(flag, idle) == TRUE

\* idle.go:265 and :271
CallbackDue(flag, idle) == flag # idle

\* One second passes.
Clock ==
    /\ now < MaxTime
    /\ now' = now + 1
    /\ UNCHANGED <<auxVars, engineVars, pauserVars, pmVars, osVars, ctlVars, detVars, watchVars>>
    /\ UNCHANGED <<lastActivity, tickLast, cbLog>>

\* idle.go:259-260: the ticker fires and runTicker loads lastActivity.
TickLoad ==
    /\ tickLast = -1
    /\ tickLast' = lastActivity
    /\ UNCHANGED <<auxVars, engineVars, pauserVars, pmVars, osVars, ctlVars, detVars, watchVars>>
    /\ UNCHANGED <<now, lastActivity, cbLog>>

\* idle.go:261-276: the time is read and compared; on an edge the flag
\* (local to runTicker) flips and onIdle or onActive is called.
TickCompare ==
    /\ tickLast # -1
    /\ LET idle == IsIdleAt(now - tickLast)
       IN IF CallbackDue(tickIdle, idle)
          THEN /\ tickIdle' = idle
               /\ cbLog' = Append(cbLog, IF idle THEN "onIdle" ELSE "onActive")
          ELSE UNCHANGED <<tickIdle, cbLog>>
    /\ tickLast' = -1
    /\ UNCHANGED <<isIdle, isRemotePlay, isGameRunning, gamePID, rpActive, LastPID>>
    /\ UNCHANGED <<auxVars, pauserVars, pmVars, osVars, ctlVars, detVars, watchVars>>
    /\ UNCHANGED <<now, lastActivity>>

\* 1/SubSecond s passes on the wall clock.
Instant ==
    /\ now < MaxTime
    /\ frac' = (frac + 1) % SubSecond
    /\ now' = IF frac + 1 = SubSecond THEN now + 1 ELSE now
    /\ UNCHANGED <<energyVars, pmEnvVars, sideVars, untilIdle>>
    /\ UNCHANGED <<engineVars, pauserVars, pmVars, osVars, ctlVars, detVars, watchVars>>
    /\ UNCHANGED <<lastActivity, tickLast, cbLog>>

NoCountdown == -1

\* idle.go:282-290 at the instant sub/SubSecond past second sec, in
\* 1/SubSecond s: time.Unix(last, 0) is the start of second last, time.Since
\* measures from there to the instant, the remainder is clamped at zero.
TimeUntilIdle(last, sec, sub) ==
    LET elapsed == (sec - last) * SubSecond + sub
        remaining == Timeout * SubSecond - elapsed
    IN IF remaining < 0 THEN 0 ELSE remaining

\* manager.go:101 (Duration.Seconds) and server.go:134 (int(...)): the
\* seconds_until_idle of the status, whole seconds towards zero.
SecondsUntilIdle(d) == d \div SubSecond

\* idle.go:282-290
GetTimeUntilIdle ==
    /\ untilIdle' = TimeUntilIdle(lastActivity, now, frac)
    /\ UNCHANGED <<energyVars, pmEnvVars, sideVars, frac>>
    /\ UNCHANGED <<engineVars, pauserVars, pmVars, osVars, ctlVars, detVars, tickVars, watchVars>>

\* ---------------------------------------------- IdleMonitor: the watchers
\* Device nodes: a keyboard (event0), and a gamepad that shows as event1 and
\* as js0.
Paths == {"event0", "event1", "js0"}

\* strings.Contains(path, "event") (idle.go:142) and strings.Contains(path,
\* "js") (idle.go:191) on these paths
IsEventPath(path) == path \in {"event0", "event1"}
IsJsPath(path) == path = "js0"

\* The content of /sys/class/input/<base>/device/handlers
Handlers(path) ==
    IF path = "event0" THEN {"sysrq", "kbd", "event0"} ELSE {"event1", "js0"}

\* (mutant) no event node is taken for a joystick
isJoystick_Never(path) == FALSE

\* idle.go:226-246
isJoystick(path) == \E h \in Handlers(path) : h = "js0"

\* The watchDevice goroutines: up to MaxRegs per path; and the goroutine of
\* an API request that calls ResetActivity.
Watchers == Paths \X (1..MaxRegs)
ApiReset == <<"api", 1>>
Storers == Watchers \cup {ApiReset}

\* struct js_event (idle.go:192-193) as the bytes watchDevice looks at:
\* type at offset 6, value at offsets 4 and 5.  The values are -4000,
\* -3999, 0, 3999 and 4000.
JsValues == {<<96, 240>>, <<97, 240>>, <<0, 0>>, <<159, 15>>, <<160, 15>>}
JsEvents ==
    {[type |-> 1, lo |-> 1, hi |-> 0], [type |-> 129, lo |-> 1, hi |-> 0],
     [type |-> 130, lo |-> 160, hi |-> 15]}
    \cup {[type |-> 2, lo |-> v[1], hi |-> v[2]] : v \in JsValues}

\* What a successful read of a joystick node returns.
JsBatches == UNION {[1..k -> JsEvents] : k \in 1..MaxBatch}

\* idle.go:204: int16(uint16(buf[4]) | uint16(buf[5])<<8)
Int16(lo, hi) ==
    LET u == lo + 256 * hi IN IF u >= 32768 THEN u - 65536 ELSE u

\* idle.go:197: typeByte&0x80 != 0
HasInitFlag(typeByte) == (typeByte \div 128) % 2 = 1

\* idle.go:202: typeByte&0x7F == 2
IsAxis(typeByte) == typeByte % 128 = 2

\* idle.go:206
InDeadzone(val) == val > -4000 /\ val < 4000

\* idle.go:196-208: the event is dropped.
Filtered(ev) ==
    \/ HasInitFlag(ev.type)
    \/ IsAxis(ev.type) /\ InDeadzone(Int16(ev.lo, ev.hi))

\* idle.go:191-210: of the n >= 8 bytes read, the filter looks at the first
\* event of the buffer.
Dropped(batch) == 8 * Len(batch) >= 8 /\ Filtered(batch[1])

\* A read of a joystick node as the watcher sees it: the byte count, what
\* the filter decides, and whether any of the events read counts as
\* activity.
JsRead(batch) ==
    [n |-> 8 * Len(batch),
     dropped |-> Dropped(batch),
     acts |-> \E i \in 1..Len(batch) : ~Filtered(batch[i])]

JsReads == {JsRead(batch) : batch \in JsBatches}

NoRead == [n |-> 0, acts |-> FALSE]

WGoto(w, label) == wpc' = [wpc EXCEPT ![w] = label]

\* go m.watchDevice(ctx, path): idle.go:77 (initial scan), :102 and :106
\* (hotplug), :121 (AddDevice).
Register(w) ==
    /\ wpc[w] \in {"none", "done"}
    /\ WGoto(w, "lock")
    /\ UNCHANGED <<auxVars, engineVars, pauserVars, pmVars, osVars, ctlVars, detVars, tickVars>>
    /\ UNCHANGED <<watchedDevices, wnow, wread>>

\* (mutant) no path is taken for watched
AlreadyWatched_Never(watched, path) == FALSE

\* idle.go:127
AlreadyWatched(watched, path) == path \in watched

\* idle.go:126-132
WatchLock(w) ==
    /\ wpc[w] = "lock"
    /\ IF AlreadyWatched(watchedDevices, w[1])
       THEN WGoto(w, "done") /\ UNCHANGED watchedDevices
       ELSE WGoto(w, "dedup") /\ watchedDevices' = watchedDevices \cup {w[1]}
    /\ UNCHANGED <<auxVars, engineVars, pauserVars, pmVars, osVars, ctlVars, detVars, tickVars>>
    /\ UNCHANGED <<wnow, wread>>

\* idle.go:142-150: an event node of a joystick is given up; the deferred
\* delete of :134-138 is still to run.
WatchDedup(w) ==
    /\ wpc[w] = "dedup"
    /\ IF IsEventPath(w[1]) /\ isJoystick(w[1])
       THEN WGoto(w, "defer") /\ watchedDevices' = watchedDevices \ {w[1]}
       ELSE WGoto(w, "open") /\ UNCHANGED watchedDevices
    /\ UNCHANGED <<auxVars, engineVars, pauserVars, pmVars, osVars, ctlVars, detVars, tickVars>>
    /\ UNCHANGED <<wnow, wread>>

\* idle.go:154-159
WatchOpen(w) ==
    /\ wpc[w] = "open"
    /\ \E ok \in BOOLEAN : WGoto(w, IF ok THEN "read" ELSE "defer")
    /\ UNCHANGED <<auxVars, engineVars, pauserVars, pmVars, osVars, ctlVars, detVars, tickVars>>
    /\ UNCHANGED <<watchedDevices, wnow, wread>>

\* idle.go:177-184: the read fails (the device is gone).
WatchReadError(w) ==
    /\ wpc[w] = "read"
    /\ WGoto(w, "defer")
    /\ wread' = [wread EXCEPT ![w] = NoRead]
    /\ UNCHANGED <<auxVars, engineVars, pauserVars, pmVars, osVars, ctlVars, detVars, tickVars>>
    /\ UNCHANGED <<watchedDevices, wnow>>

\* idle.go:177-213: a read returns data; unless the joystick filter drops it
\* the time is read (the argument of StoreInt64).  A joystick node returns
\* whole js_events of 8 bytes, an event node input_events of 24.
WatchRead(w) ==
    /\ wpc[w] = "read"
    /\ IF IsJsPath(w[1])
       THEN \E r \in JsReads :
               /\ wread' = [wread EXCEPT ![w] = [n |-> r.n, acts |-> r.acts]]
               /\ IF r.dropped
                  THEN UNCHANGED <<wpc, wnow>>
                  ELSE WGoto(w, "store") /\ wnow' = [wnow EXCEPT ![w] = now]
       ELSE /\ wread' = [wread EXCEPT ![w] = [n |-> 24, acts |-> TRUE]]
            /\ WGoto(w, "store")
            /\ wnow' = [wnow EXCEPT ![w] = now]
    /\ UNCHANGED <<auxVars, engineVars, pauserVars, pmVars, osVars, ctlVars, detVars>>
    /\ UNCHANGED <<now, lastActivity, tickLast, cbLog, watchedDevices>>

\* idle.go:213: atomic.StoreInt64(&m.lastActivity, <the time read>)
WatchStore(w) ==
    /\ wpc[w] = "store"
    /\ w # ApiReset
    /\ lastActivity' = wnow[w]
    /\ wnow' = [wnow EXCEPT ![w] = 0]
    /\ WGoto(w, "read")
    /\ wread' = [wread EXCEPT ![w] = NoRead]
    /\ UNCHANGED <<auxVars, engineVars, pauserVars, pmVars, osVars, ctlVars, detVars>>
    /\ UNCHANGED <<now, tickLast, cbLog, watchedDevices>>

\* idle.go:134-138, the deferred delete
WatchDefer(w) ==
    /\ wpc[w] = "defer"
    /\ watchedDevices' = watchedDevices \ {w[1]}
    /\ WGoto(w, "done")
    /\ UNCHANGED <<auxVars, engineVars, pauserVars, pmVars, osVars, ctlVars, detVars, tickVars>>
    /\ UNCHANGED <<wnow, wread>>

\* idle.go:294, called by HandleActivity (server.go:154-165): the time is
\* read, then stored.
ResetRead ==
    /\ wpc[ApiReset] = "none"
    /\ wnow' = [wnow EXCEPT ![ApiReset] = now]
    /\ WGoto(ApiReset, "store")
    /\ UNCHANGED <<auxVars, engineVars, pauserVars, pmVars, osVars, ctlVars, detVars, tickVars>>
    /\ UNCHANGED <<watchedDevices, wread>>

ResetStore ==
    /\ wpc[ApiReset] = "store"
    /\ lastActivity' = wnow[ApiReset]
    /\ wnow' = [wnow EXCEPT ![ApiReset] = 0]
    /\ WGoto(ApiReset, "none")
    /\ UNCHANGED <<auxVars, engineVars, pauserVars, pmVars, osVars, ctlVars, detVars>>
    /\ UNCHANGED <<now, tickLast, cbLog, watchedDevices, wread>>

\* --------------------------------------------------------- Ollama groups
\* The IP field of a request line, as text: an IPv4 address, the same
\* address in its IPv4-mapped IPv6 spelling, another address, and a text
\* that is no address.
Texts == {"10.0.0.1", "::ffff:10.0.0.1", "10.0.1.1", "junk"}

\* The entries a group's CIDRs list is drawn from.
Entries == {"10.0.0.0/24", "10.0.0.0/16", "10.0.0.1", "10.0.1.1", "junk"}

NoAddr == "nil"
NoNet == {}

\* net.ParseIP: the address a text spells; both spellings of 10.0.0.1 give
\* the same address.
ParseIP(text) ==
    IF text \in {"10.0.0.1", "::ffff:10.0.0.1"} THEN "a1"
    ELSE IF text = "10.0.1.1" THEN "a2"
    ELSE NoAddr

\* net.ParseCIDR and IPNet.Contains: the addresses of the network an entry
\* denotes; an entry without prefix length is no network.
ParseCIDR(entry) ==
    IF entry = "10.0.0.0/24" THEN {"a1"}
    ELSE IF entry = "10.0.0.0/16" THEN {"a1", "a2"}
    ELSE NoNet

\* (mutant) a single-address entry is compared as an address
EntryMatches_ByAddress(ip, entry) ==
    IF ParseCIDR(entry) = NoNet
    THEN ParseIP(entry) # NoAddr /\ ParseIP(ip) = ParseIP(entry)
    ELSE ParseIP(ip) \in ParseCIDR(entry)

\* stats.go:81-91: an entry that is no CIDR matches when it is an address
\* and equals the request's text; a CIDR matches when it contains the
\* parsed address.
EntryMatches(ip, entry) ==
    IF ParseCIDR(entry) = NoNet
    THEN ParseIP(entry) # NoAddr /\ ip = entry
    ELSE ParseIP(ip) \in ParseCIDR(entry)

RECURSIVE AnyEntry(_, _)
\* stats.go:80-92, the inner loop
AnyEntry(ip, cidrs) ==
    IF cidrs = <<>> THEN FALSE
    ELSE IF EntryMatches(ip, Head(cidrs)) THEN TRUE
    ELSE AnyEntry(ip, Tail(cidrs))

RECURSIVE FirstGroup(_, _)
\* stats.go:79-94, the outer loop
FirstGroup(ip, gs) ==
    IF gs = <<>> THEN ""
    ELSE IF AnyEntry(ip, Head(gs).CIDRs) THEN Head(gs).Name
    ELSE FirstGroup(ip, Tail(gs))

\* stats.go:73-95
MatchGroup(ip, gs) ==
    IF ParseIP(ip) = NoAddr THEN "" ELSE FirstGroup(ip, gs)

Pending == "?"

\* config.go:287: a request line with IP field ip is at hand.
Request(ip) ==
    /\ matched # Pending \/ reqIP = ""
    /\ reqIP' = ip
    /\ matched' = Pending
    /\ UNCHANGED <<groups, lastRequest, powersaveTimer, rpVars, energyVars, pmEnvVars, countVars>>
    /\ UNCHANGED <<engineVars, pauserVars, pmVars, osVars, ctlVars, detVars, tickVars, watchVars>>

\* config.go:287: groupName := MatchGroup(info.IP, m.groups)
CallMatchGroup ==
    /\ reqIP # "" /\ matched = Pending
    /\ matched' = MatchGroup(reqIP, groups)
    /\ UNCHANGED <<groups, reqIP, lastRequest, powersaveTimer, rpVars, energyVars, pmEnvVars, countVars>>
    /\ UNCHANGED <<engineVars, pauserVars, pmVars, osVars, ctlVars, detVars, tickVars, watchVars>>

\* ------------------------------------------------ Ollama inactivity timer
\* config.go:313 and :319, in seconds
OllamaIdle == 10

NoTimer == -1

\* NewMonitor: no request has been seen and no timer is started.
NoRequests == lastRequest = 0 /\ powersaveTimer = NoTimer

OllamaTasks == {"proxy", "timer"}

\* Time passes.
Elapse ==
    /\ now < OllamaIdle + MaxTime
    /\ now' = now + 1
    /\ UNCHANGED <<auxVars, engineVars, pauserVars, pmVars, osVars, ctlVars, detVars, watchVars>>
    /\ UNCHANGED <<lastActivity, tickLast, cbLog>>

\* recordRequest, config.go:263-305, under m.mu: the request is counted
\* for its IP and its group, lastRequest is set and SetPerformance is
\* called.
RecordRequest(ip) ==
    /\ At("proxy", "wait")
    /\ reqIP' = ip
    /\ matched' = MatchGroup(ip, groups)
    /\ lastRequest' = now
    /\ CallSetMode("proxy", "performance")
    /\ Goto("proxy", "r305")
    /\ UNCHANGED <<groups, powersaveTimer, rpVars, energyVars, pmEnvVars, countVars>>
    /\ UNCHANGED <<engineVars, pauserVars, osVars, rd, calls, resp, events>>
    /\ UNCHANGED <<currentMode, pmFacts, pmMu, sysProfile, issued>>
    /\ UNCHANGED <<detVars, tickVars, watchVars>>

\* recordRequest, config.go:305-329, SetPerformance having returned:
\* TriggerActivity (manager.go:267-273) resets the idle clock, the timer is
\* stopped and started anew, m.mu is released.
RecordRequestArm ==
    /\ At("proxy", "r305")
    /\ lastActivity' = now
    /\ powersaveTimer' = now + OllamaIdle
    /\ Goto("proxy", "wait")
    /\ UNCHANGED <<groups, reqIP, matched, lastRequest, rpVars, energyVars, pmEnvVars, countVars>>
    /\ UNCHANGED <<engineVars, pauserVars, pmVars, osVars, rd, calls, resp, events>>
    /\ UNCHANGED <<detVars, now, tickLast, cbLog, watchVars>>

\* config.go:319: the test of the timer's function, on the seconds since
\* lastRequest; the facts of the decision engine have no part in it.
TimerWantsPowersave(since) == since >= OllamaIdle

\* The timer's function, config.go:313-323, once the timer is due:
\* lastRequest is read under m.mu (which recordRequest does not hold) and
\* SetPowersave is called if no request came for OllamaIdle seconds.
TimerFunc ==
    /\ powersaveTimer # NoTimer /\ now >= powersaveTimer
    /\ At("timer", "wait")
    /\ pc["proxy"] = "wait"
    /\ powersaveTimer' = NoTimer
    /\ IF TimerWantsPowersave(now - lastRequest)
       THEN CallSetMode("timer", "powersave")
       ELSE UNCHANGED <<pmMode, pmStep>>
    /\ UNCHANGED <<groups, reqIP, matched, lastRequest, rpVars, energyVars, pmEnvVars, countVars>>
    /\ UNCHANGED <<engineVars, pauserVars, osVars, ctlVars>>
    /\ UNCHANGED <<currentMode, pmFacts, pmMu, sysProfile, issued>>
    /\ UNCHANGED <<detVars, tickVars, watchVars>>

\* ----------------------------------------------------------- PowerMonitor
\* monitor.go:38, the hours of the ring
RingSize == 168

\* monitor.go:139, the hours of the 24h total
DayHours == 24

\* The hours (counted by rollovers) in which the samples carry energy; in
\* the others turbostat reports 0 W.
HotHours == {0, 1, 160}

NoSample == [e |-> -1, gap |-> 0]
NoReport == [sum24h |-> -1, sum7d |-> -1]

\* (mutant) the hour is over only when more than an hour has passed
IsHourOver_Strict(gap) == gap > 1

\* monitor.go:119: now.Sub(m.lastHourTime) >= time.Hour
IsHourOver(gap) == gap >= 1

\* (mutant) the bucket that becomes current keeps what it held
OpenBucket_Keep(ring, idx) == ring

\* monitor.go:121
OpenBucket(ring, idx) == [ring EXCEPT ![idx] = 0]

\* monitor.go:120
NextIndex(idx) == (idx + 1) % RingSize

\* monitor.go:94-125, under m.mu: a line of turbostat whose three sensors
\* add up to e joules.
Sample(e) ==
    /\ LET over == IsHourOver(sinceHour)
           idx == IF over THEN NextIndex(hourIndex) ELSE hourIndex
           hour == IF over THEN rolls + 1 ELSE rolls
           ring == IF over THEN OpenBucket(hourlyEnergy, idx) ELSE hourlyEnergy
       IN /\ hour <= MaxRolls
          /\ e > 0 => hour \in HotHours /\ ledger[hour] + e <= MaxEnergy
          /\ hourIndex' = idx
          /\ rolls' = hour
          /\ sinceHour' = IF over THEN 0 ELSE sinceHour
          /\ hourlyEnergy' = [ring EXCEPT ![idx] = @ + e]
          /\ ledger' = IF e > 0 THEN [ledger EXCEPT ![hour] = @ + e] ELSE ledger
    /\ lastSample' = [e |-> e, gap |-> sinceHour]
    /\ report' = NoReport
    /\ UNCHANGED <<pmEnvVars, countVars, sideVars, engineVars, pauserVars, pmVars, osVars, ctlVars, detVars, tickVars, watchVars>>

\* An hour passes without a sample being handled.
HourPasses ==
    /\ sinceHour < MaxGap
    /\ sinceHour' = sinceHour + 1
    /\ lastSample' = NoSample
    /\ report' = NoReport
    /\ UNCHANGED <<hourlyEnergy, hourIndex, rolls, ledger>>
    /\ UNCHANGED <<pmEnvVars, countVars, sideVars, engineVars, pauserVars, pmVars, osVars, ctlVars, detVars, tickVars, watchVars>>

RECURSIVE SumRange(_, _, _)
\* ring[lo] + ... + ring[hi], added up by halves
SumRange(ring, lo, hi) ==
    IF lo = hi THEN ring[lo]
    ELSE LET mid == (lo + hi) \div 2
         IN SumRange(ring, lo, mid) + SumRange(ring, mid + 1, hi)

\* monitor.go:134-136: the sum of all buckets
Sum7d(ring) == SumRange(ring, 0, RingSize - 1)

\* (mutant) the walk stops at bucket 0 instead of wrapping
PrevIndex_NoWrap(idx) == IF idx - 1 < 0 THEN 0 ELSE idx - 1

\* monitor.go:141-144
PrevIndex(idx) == IF idx - 1 < 0 THEN RingSize - 1 ELSE idx - 1

RECURSIVE Sum24h(_, _, _)
\* monitor.go:138-145: i buckets from idx backward
Sum24h(ring, idx, i) ==
    IF i = 0 THEN 0 ELSE ring[idx] + Sum24h(ring, PrevIndex(idx), i - 1)

\* monitor.go:128-156, under m.mu.RLock: the two totals in joules, as they
\* are before the division of :153-154.
EnergyStatus ==
    /\ report = NoReport
    /\ report' = [sum24h |-> Sum24h(hourlyEnergy, hourIndex, DayHours),
                  sum7d |-> Sum7d(hourlyEnergy)]
    /\ lastSample' = NoSample
    /\ UNCHANGED <<hourlyEnergy, hourIndex, sinceHour, rolls, ledger>>
    /\ UNCHANGED <<pmEnvVars, countVars, sideVars, engineVars, pauserVars, pmVars, osVars, ctlVars, detVars, tickVars, watchVars>>

\* ----------------------------------------------------------- the machine
\* The state at main.go:109: NewPowerManager, then SetDefaultActive has run
\* to completion on the main goroutine; no detector has reported anything.
\* The process table holds one game: process 2 and its child 3, either
\* running or left stopped by an earlier instance of the daemon.
InitParent == [p \in PIDs |-> IF p = 2 THEN 1 ELSE IF p = 3 THEN 2 ELSE 0]

\* main.go:110-111 and :232-241: no game known (pid = 0), or a running game
\* found by the startup detection, which has published it.
GameKnown(pid) ==
    /\ isGameRunning = (pid > 0) /\ gamePID = pid /\ LastPID = pid
    /\ pmFacts = [isIdle |-> FALSE, isRemotePlay |-> FALSE, isGameRunning |-> pid > 0,
                  gamePID |-> pid, isGamePaused |-> FALSE]

InitCommon ==
    /\ isIdle = FALSE /\ isRemotePlay = FALSE
    /\ tickIdle = FALSE /\ rpActive = FALSE
    /\ isPaused = FALSE /\ pausedPIDs = <<>> /\ lastErr = "nil"
    /\ lastSignals = NoSignals /\ lastOp = NoOp
    /\ pmMu = "none"
    /\ pmMode = [t \in Threads |-> ""]
    /\ pmStep = [t \in Threads |-> 0]
    /\ rd = [t \in Detectors |-> NoReads]
    /\ calls = [t \in Threads |-> <<>>]
    /\ issued = [t \in Callers |-> <<>>]
    /\ resp = [t \in Callers |-> [code |-> "", body |-> "", req |-> NoRequest]]
    /\ events = 0

\* Parts of the daemon a specification leaves at rest.
NoDetector == comm = [p \in PIDs |-> "game"] /\ gameRoot = NoRoot

\* NewIdleMonitor, idle.go:27-34: lastActivity is the time of construction.
TickerAtRest ==
    /\ now = 0 /\ lastActivity = 0 /\ tickLast = -1 /\ cbLog = <<>>
    /\ frac = 0 /\ untilIdle = NoCountdown
    /\ plugged = {} /\ discovered = {} /\ added = {}

\* No group is configured and no request has been seen.
NoStats == groups = <<>> /\ reqIP = "" /\ matched = Pending /\ NoRequests

\* idle.go:44-56: the hotplug watcher runs.
NoTicker ==
    /\ TickerAtRest
    /\ hotplug = TRUE
    /\ NoStats

NoWatchers ==
    /\ watchedDevices = {}
    /\ wpc = [w \in Storers |-> "none"]
    /\ wnow = [w \in Storers |-> 0]
    /\ wread = [w \in Watchers |-> NoRead]

\* A machine on which the profile tool is the one external action that can
\* fail, with its network devices at full power.
UsualEnv ==
    /\ flaky = {"profile"}
    /\ netPower = "on"
    /\ failed = [t \in {} |-> {}]
    /\ denied = {}

\* NewPowerMonitor, monitor.go:44-48: the ring is zero, the cursor 0 and
\* the first hour starts.
NewPowerMonitor ==
    /\ hourlyEnergy = [i \in 0..(RingSize - 1) |-> 0]
    /\ hourIndex = 0
    /\ sinceHour = 0
    /\ rolls = 0
    /\ ledger = [h \in HotHours |-> 0]
    /\ lastSample = NoSample
    /\ report = NoReport

\* main.go:273: the PowerMonitor is constructed after the detectors and the
\* PowerManager; until then, and where it is left out of account, there is
\* no ring.
NoEnergy ==
    /\ hourlyEnergy = <<>>
    /\ hourIndex = 0
    /\ sinceHour = 0
    /\ rolls = 0
    /\ ledger = <<>>
    /\ lastSample = NoSample
    /\ report = NoReport

Init ==
    /\ InitCommon
    /\ NoDetector /\ NoTicker /\ NoWatchers /\ NoEnergy /\ UsualEnv
    /\ GameKnown(0)
    /\ currentMode = "performance"
    /\ sysProfile = "performance"
    /\ parent = InitParent
    /\ stopped \in {{}, Alive(InitParent)}
    /\ pc = [t \in Threads |-> IF t = "steam" THEN "startup" ELSE "wait"]

\* The state once the startup detection of main.go:232 is over and the game
\* detector's goroutine is started: no game, or game 2 found running.
InitDetectors ==
    /\ InitCommon
    /\ NoDetector /\ NoTicker /\ NoWatchers /\ NoEnergy /\ UsualEnv
    /\ \E pid \in {0, 2} : GameKnown(pid)
    /\ currentMode = "performance"
    /\ sysProfile = "performance"
    /\ parent = InitParent
    /\ stopped = {}
    /\ pc = [t \in Threads |-> "wait"]

DetectorNext ==
    \/ IdleEdge \/ RemotePlayCheck \/ SteamCheck
    \/ WriteGamePID \/ CallSyncState
    \/ ClearGamePID \/ StopCheckPaused \/ StopResume
    \/ \E t \in Detectors :
          \/ ReadIdle(t) \/ Decide(t)
          \/ IdleCheckGame(t) \/ IdleCheckPaused(t) \/ IdlePause(t) \/ IdleSetPowersave(t)
          \/ ActiveCheckPaused(t) \/ ActiveResume(t) \/ ActiveSetMode(t)
          \/ PublishState(t)
          \/ SetModeLocked(t) \/ Apply(t)

Next == StartupDetect \/ DetectorNext

Spec == Init /\ [][Next]_vars

SpecDetectors == InitDetectors /\ [][DetectorNext]_vars

\* The PowerManager under its concurrent callers: two API requests at a
\* time, and the idle ticker's goroutine running updatePowerState.
PMCallers == Callers \cup {"idle"}

PMNext ==
    \/ \E t \in Callers :
          \/ \E req \in ModePosts : HandleMode(t, req)
          \/ HandleModeRespond(t) \/ HandleStatus(t)
    \/ \E t \in PMCallers : SetModeLocked(t) \/ Apply(t)
    \/ IdleEdge
    \/ ReadIdle("idle") \/ Decide("idle")
    \/ IdleCheckGame("idle") \/ IdleCheckPaused("idle") \/ IdlePause("idle")
    \/ IdleSetPowersave("idle")
    \/ ActiveCheckPaused("idle") \/ ActiveResume("idle") \/ ActiveSetMode("idle")
    \/ PublishState("idle")

SpecPM == InitDetectors /\ [][PMNext]_vars

\* The remote-play detector's goroutine: its scans and callbacks, with
\* updatePowerState on a desktop without game, while virtual controllers
\* come and go.
RemotePlayNext ==
    \/ \E d \in VirtualPads : PlugPad(d) \/ UnplugPad(d)
    \/ check
    \/ ReadIdle("rp") \/ Decide("rp")
    \/ ActiveCheckPaused("rp") \/ ActiveSetMode("rp")
    \/ SetModeLocked("rp")
    \/ PublishState("rp")

\* idle.go:44-56: the hotplug watcher runs, or fsnotify failed and hotplug
\* detection is disabled.
InitRemotePlay ==
    /\ InitCommon
    /\ NoDetector /\ TickerAtRest /\ NoWatchers /\ NoEnergy /\ UsualEnv
    /\ NoStats
    /\ hotplug \in BOOLEAN
    /\ GameKnown(0)
    /\ currentMode = "performance"
    /\ sysProfile = "performance"
    /\ parent = InitParent
    /\ stopped = {}
    /\ pc = [t \in Threads |-> "wait"]

SpecRemotePlay == InitRemotePlay /\ [][RemotePlayNext]_vars

\* ------------------------------------------------ the two polling detectors
\* Both detectors poll; the game detector starts with the pid of the startup
\* detection (main.go:236) or none, the remote-play detector inactive.
InitEdges ==
    /\ InitCommon
    /\ TickerAtRest /\ NoWatchers /\ NoEnergy /\ UsualEnv
    /\ NoStats
    /\ hotplug = TRUE
    /\ comm = [p \in PIDs |-> IF p = 2 THEN "reaper" ELSE "game"]
    /\ \E pid \in {0, 2} :
          /\ GameKnown(pid)
          /\ gameRoot = [pid |-> pid, root |-> pid, err |-> FALSE]
    /\ currentMode = "performance"
    /\ sysProfile = "performance"
    /\ parent = InitParent
    /\ stopped = {}
    /\ pc = [t \in Threads |-> "wait"]

EdgesNext == SteamDetectorCheck \/ RemotePlayNext

SpecEdges == InitEdges /\ [][EdgesNext]_vars

\* ----------------------------------------------- the pauser on its own
\* The process table changes under the pauser: fork(2) gives a free pid to a
\* child of a running process or of init; a process that exits leaves its
\* children to init.
Fork(p, q) ==
    /\ Notify
    /\ parent[p] = 0
    /\ q = 1 \/ (q \in Alive(parent) /\ q \notin stopped)
    /\ parent' = [parent EXCEPT ![p] = q]
    /\ UNCHANGED <<engineVars, pauserVars, pmVars, stopped, pc, rd, calls, resp>>
    /\ UNCHANGED monVars

Exit(p) ==
    /\ Notify
    /\ parent[p] # 0
    /\ parent' = [c \in PIDs |-> IF c = p THEN 0 ELSE IF parent[c] = p THEN 1 ELSE parent[c]]
    /\ stopped' = stopped \ {p}
    /\ UNCHANGED <<engineVars, pauserVars, pmVars, pc, rd, calls, resp>>
    /\ UNCHANGED monVars

\* The pauser's callers: main.go:143 (Pause), :156 and :266 (Resume), :237
\* and :255 (SyncState), with any pid the game detector may hold.
PauseCall(rootPID) ==
    /\ Pause(rootPID)
    /\ UNCHANGED <<engineVars, pmVars, parent, ctlVars>>
    /\ UNCHANGED monVars

ResumeCall ==
    /\ Resume
    /\ UNCHANGED <<engineVars, pmVars, parent, ctlVars>>
    /\ UNCHANGED monVars

SyncStateCall(rootPID) ==
    /\ SyncState(rootPID)
    /\ UNCHANGED <<engineVars, pmVars, parent, ctlVars>>
    /\ UNCHANGED monVars

\* The pauser is new (NewProcessPauser, manager.go:295-297); the process
\* table holds the game of InitParent, running or stopped.
InitPauser ==
    /\ InitCommon
    /\ NoDetector /\ NoTicker /\ NoWatchers /\ NoEnergy /\ UsualEnv
    /\ GameKnown(0)
    /\ currentMode = "performance"
    /\ sysProfile = "performance"
    /\ parent = InitParent
    /\ stopped \in {{}, Alive(InitParent)}
    /\ pc = [t \in Threads |-> "wait"]

PauserNext ==
    \/ \E rootPID \in {0} \cup PIDs : PauseCall(rootPID) \/ SyncStateCall(rootPID)
    \/ ResumeCall
    \/ \E p \in PIDs : Exit(p) \/ \E q \in {1} \cup PIDs : Fork(p, q)

SpecPauser == InitPauser /\ [][PauserNext]_vars

\* The pauser where kill(2) is refused for any of the processes of the
\* game (and for whatever process takes over such a pid).
InitSignals ==
    /\ InitCommon
    /\ NoDetector /\ NoTicker /\ NoWatchers /\ NoEnergy
    /\ flaky = {"profile"}
    /\ netPower = "on"
    /\ failed = [t \in {} |-> {}]
    /\ denied \in SUBSET Alive(InitParent)
    /\ GameKnown(0)
    /\ currentMode = "performance"
    /\ sysProfile = "performance"
    /\ parent = InitParent
    /\ stopped = {}
    /\ pc = [t \in Threads |-> "wait"]

SpecSignals == InitSignals /\ [][PauserNext]_vars

RECURSIVE ReachesInit(_, _, _)
\* Following the parent field from p leads to init (pid 1) within k steps.
ReachesInit(par, p, k) ==
    \/ par[p] = 1
    \/ k > 0 /\ par[p] \in DOMAIN par /\ ReachesInit(par, par[p], k - 1)

\* The process tables /proc can show: every live process (parent # 0)
\* descends from init through live processes.
Trees ==
    {par \in [PIDs -> 0..MaxPID] :
        \A p \in PIDs : par[p] # 0 => par[p] # p /\ ReachesInit(par, p, MaxPID)}

\* Any process table and any command names; the detector has yet to look
\* for the root of a game.
InitRoot ==
    /\ InitCommon
    /\ NoTicker /\ NoWatchers /\ NoEnergy /\ UsualEnv
    /\ GameKnown(0)
    /\ currentMode = "performance"
    /\ sysProfile = "performance"
    /\ parent \in Trees
    /\ stopped = {}
    /\ pc = [t \in Threads |-> "wait"]
    /\ comm \in [PIDs -> Names]
    /\ gameRoot = NoRoot

RootNext == \E pid \in PIDs : FindGameRoot(pid)

SpecRoot == InitRoot /\ [][RootNext]_vars

\* What the reads of /proc/<pid>/stat can return during one walk: any
\* parent id for any process, cycles included (the reads are not one
\* snapshot, and pids are reused), a process being unreadable when it is
\* gone (parent 0); any of the command names the two naming rules tell
\* apart.
WalkNames == {"game", "reaper", "wineserver"}

InitWalk ==
    /\ InitCommon
    /\ NoTicker /\ NoWatchers /\ NoEnergy /\ UsualEnv
    /\ GameKnown(0)
    /\ currentMode = "performance"
    /\ sysProfile = "performance"
    /\ parent \in [PIDs -> 0..MaxPID]
    /\ stopped = {}
    /\ pc = [t \in Threads |-> "wait"]
    /\ comm \in [PIDs -> WalkNames]
    /\ gameRoot = NotWalking

WalkNext == (\E pid \in PIDs : BeginWalk(pid)) \/ WalkStep

SpecWalk == InitWalk /\ [][WalkNext]_vars

\* The pauser is new and the process table is any; every process runs.
InitTree ==
    /\ InitCommon
    /\ NoDetector /\ NoTicker /\ NoWatchers /\ NoEnergy /\ UsualEnv
    /\ GameKnown(0)
    /\ currentMode = "performance"
    /\ sysProfile = "performance"
    /\ parent \in Trees
    /\ stopped = {}
    /\ pc = [t \in Threads |-> "wait"]

TreeNext ==
    \/ \E rootPID \in PIDs : PauseCall(rootPID) \/ SyncStateCall(rootPID)
    \/ ResumeCall

SpecTree == InitTree /\ [][TreeNext]_vars

\* The monitor is new (NewIdleMonitor, idle.go:27-34) and its ticker runs
\* (idle.go:61); activity is reported through ResetActivity.  The
\* callbacks are recorded, not run.
InitIdle ==
    /\ InitCommon
    /\ NoDetector /\ NoTicker /\ NoWatchers /\ NoEnergy /\ UsualEnv
    /\ GameKnown(0)
    /\ currentMode = "performance"
    /\ sysProfile = "performance"
    /\ parent = InitParent
    /\ stopped = {}
    /\ pc = [t \in Threads |-> "wait"]

IdleNext == Clock \/ TickLoad \/ TickCompare \/ ResetRead \/ ResetStore

SpecIdle == InitIdle /\ [][IdleNext]_vars

\* The same with the wall clock followed below the second, and the idle
\* countdown read for the status.
CountdownNext ==
    Instant \/ TickLoad \/ TickCompare \/ ResetRead \/ ResetStore \/ GetTimeUntilIdle

SpecCountdown == InitIdle /\ [][CountdownNext]_vars

\* The watchers of the keyboard and of the gamepad's js node have opened
\* their devices and sit in the read loop (idle.go:173); the wall clock
\* runs and API requests reset the idle timer.
InitActivity ==
    /\ InitCommon
    /\ NoDetector /\ NoTicker /\ NoEnergy /\ UsualEnv
    /\ GameKnown(0)
    /\ currentMode = "performance"
    /\ sysProfile = "performance"
    /\ parent = InitParent
    /\ stopped = {}
    /\ pc = [t \in Threads |-> "wait"]
    /\ watchedDevices = {"event0", "js0"}
    /\ wpc = [w \in Storers |-> IF w \in {<<"event0", 1>>, <<"js0", 1>>} THEN "read" ELSE "none"]
    /\ wnow = [w \in Storers |-> 0]
    /\ wread = [w \in Watchers |-> NoRead]

ActivityNext ==
    \/ Clock \/ ResetRead \/ ResetStore
    \/ \E w \in Watchers :
          WatchRead(w) \/ WatchReadError(w) \/ WatchStore(w) \/ WatchDefer(w)

SpecActivity == InitActivity /\ [][ActivityNext]_vars

\* The monitor is new: nothing is watched; the initial scan, the hotplug
\* handler and AddDevice start watchers for the two nodes of the gamepad.
InitWatch ==
    /\ InitCommon
    /\ NoDetector /\ NoTicker /\ NoWatchers /\ NoEnergy /\ UsualEnv
    /\ GameKnown(0)
    /\ currentMode = "performance"
    /\ sysProfile = "performance"
    /\ parent = InitParent
    /\ stopped = {}
    /\ pc = [t \in Threads |-> "wait"]

GamepadWatchers == {w \in Watchers : w[1] \in {"event1", "js0"}}

WatchNext ==
    \E w \in GamepadWatchers :
        \/ Register(w) \/ WatchLock(w) \/ WatchDedup(w) \/ WatchOpen(w)
        \/ WatchRead(w) \/ WatchReadError(w) \/ WatchStore(w) \/ WatchDefer(w)

SpecWatch == InitWatch /\ [][WatchNext]_vars

\* The power monitor is new and turbostat runs: samples arrive, hours
\* pass, and the status is read.
InitEnergy ==
    /\ InitCommon
    /\ NoDetector /\ NoTicker /\ NoWatchers /\ NewPowerMonitor /\ UsualEnv
    /\ GameKnown(0)
    /\ currentMode = "performance"
    /\ sysProfile = "performance"
    /\ parent = InitParent
    /\ stopped = {}
    /\ pc = [t \in Threads |-> "wait"]

EnergyNext == HourPasses \/ EnergyStatus \/ \E e \in {0, 1} : Sample(e)

SpecEnergy == InitEnergy /\ [][EnergyNext]_vars

\* ------------------------------------------- mode requests on any machine
\* One API client; any set of external actions can fail on the machine, and
\* its network devices start at full power or power-managed.  The failures
\* of the client's mode call are followed.
Client == "api1"

InitApply ==
    /\ InitCommon
    /\ NoDetector /\ NoTicker /\ NoWatchers /\ NoEnergy
    /\ flaky \in SUBSET ExternalActions
    /\ netPower \in {"on", "auto"}
    /\ failed = [t \in {Client} |-> {}]
    /\ denied = {}
    /\ GameKnown(0)
    /\ currentMode = "performance"
    /\ sysProfile = "performance"
    /\ parent = InitParent
    /\ stopped = {}
    /\ pc = [t \in Threads |-> "wait"]

ApplyNext ==
    \/ \E req \in Requests : HandleMode(Client, req)
    \/ SetModeLocked(Client)
    \/ Apply(Client)
    \/ HandleModeRespond(Client)

SpecApply == InitApply /\ [][ApplyNext]_vars

\* ------------------------------------------------ concurrent mode callers
\* Two callers of SetPerformance and SetPowersave on a machine where every
\* external action succeeds; the calls interleave freely once the mutex is
\* released.
InitModes ==
    /\ InitCommon
    /\ NoDetector /\ NoTicker /\ NoWatchers /\ NoEnergy
    /\ flaky = {}
    /\ netPower = "on"
    /\ failed = [t \in {} |-> {}]
    /\ denied = {}
    /\ GameKnown(0)
    /\ currentMode = "performance"
    /\ sysProfile = "performance"
    /\ parent = InitParent
    /\ stopped = {}
    /\ pc = [t \in Threads |-> "wait"]

ModesNext ==
    \E t \in Callers :
        \/ \E req \in ModePosts : HandleMode(t, req)
        \/ SetModeLocked(t)
        \/ Apply(t)
        \/ HandleModeRespond(t)

SpecModes == InitModes /\ [][ModesNext]_vars

\* ------------------------------------------------ the Ollama monitor
\* The monitor is enabled (main.go passes it the power manager); the
\* decision engine has settled on performance for a machine that is not
\* idle, with or without a game; requests arrive at any time.
InitOllama ==
    /\ isIdle = FALSE /\ isRemotePlay = FALSE
    /\ tickIdle = FALSE /\ rpActive = FALSE
    /\ isPaused = FALSE /\ pausedPIDs = <<>> /\ lastErr = "nil"
    /\ lastSignals = NoSignals /\ lastOp = NoOp
    /\ pmMu = "none"
    /\ pmMode = [t \in OllamaTasks |-> ""]
    /\ pmStep = [t \in OllamaTasks |-> 0]
    /\ rd = [t \in Detectors |-> NoReads]
    /\ calls = [t \in {} |-> <<>>]
    /\ issued = [t \in {} |-> <<>>]
    /\ resp = [t \in Callers |-> [code |-> "", body |-> "", req |-> NoRequest]]
    /\ events = 0
    /\ NoDetector /\ NoTicker /\ NoWatchers /\ NoEnergy
    /\ flaky = {}
    /\ netPower = "on"
    /\ failed = [t \in {} |-> {}]
    /\ denied = {}
    /\ \E pid \in {0, 2} : GameKnown(pid)
    /\ currentMode = "performance"
    /\ sysProfile = "performance"
    /\ parent = InitParent
    /\ stopped = {}
    /\ pc = [t \in OllamaTasks |-> "wait"]

OllamaNext ==
    \/ Elapse
    \/ RecordRequest("10.0.0.1")
    \/ RecordRequestArm
    \/ TimerFunc
    \/ \E t \in OllamaTasks : SetModeLocked(t) \/ Apply(t)

SpecOllama == InitOllama /\ [][OllamaNext]_vars

\* ------------------------------------------------------------ the mutexes
\* The daemon's mutexes: PowerManager.mu, ProcessPauser.mu, IdleMonitor.mu,
\* the Ollama Monitor's mu and PowerMonitor.mu.  Each function is followed
\* through the Lock, RLock, Unlock and RUnlock calls it makes, in program
\* order, calls into other components included.
Mutexes == {"pm", "pauser", "idleMon", "ollama", "powerMon"}

\* The goroutines: the Ollama proxy's request recorder, the inactivity
\* timer, an API request handler, two detectors in their callbacks, and two
\* device watchers.  The watchers use IdleMonitor.mu and nothing else, and
\* no other goroutine uses it, so they are followed on their own.
DaemonTasks == {"proxy", "timer", "api1", "idle", "steam"}
WatcherTasks == {"w1", "w2"}

Tasks == DOMAIN pc

Op(kind, m) == [op |-> kind, mu |-> m]

\* Lock() ... Unlock() and RLock() ... RUnlock() with no call in between
Pair(m) == <<Op("Lock", m), Op("Unlock", m)>>
RPair(m) == <<Op("RLock", m), Op("RUnlock", m)>>

\* config.go:263-329: m.mu is held to the return (defer); under it
\* powerMon.GetStatus (monitor.go:128-130), pm.SetPerformance
\* (manager.go:121-129), pm.TriggerActivity (manager.go:267-269) and the
\* start of the inactivity timer.
recordRequestLocks ==
    <<Op("Lock", "ollama")>> \o RPair("powerMon") \o Pair("pm") \o RPair("pm")
        \o <<Op("AfterFunc", "ollama"), Op("Unlock", "ollama")>>

\* config.go:313-323, the timer's function: lastRequest is read under
\* RLock, which is released before the comparison; SetPowersave
\* (manager.go:158-166) is called when 10 seconds have passed.
timerLocks(elapsed) == RPair("ollama") \o (IF elapsed THEN Pair("pm") ELSE <<>>)

\* server.go:105-109: SetPerformance or SetPowersave
HandleModeLocks == Pair("pm")

\* (mutant) pm.mu is held until HandleStatus returns
HandleStatusLocks_Deferred ==
    <<Op("RLock", "pm")>> \o RPair("powerMon") \o RPair("ollama") \o <<Op("RUnlock", "pm")>>

\* server.go:128-148: pm.GetStatus (manager.go:95-97), powerMonitor.GetStatus
\* (monitor.go:128-130), ollamaMonitor.GetStats (config.go:332-334), each
\* returned from before the next is called.
HandleStatusLocks == RPair("pm") \o RPair("powerMon") \o RPair("ollama")

\* server.go:160: pm.TriggerActivity
HandleActivityLocks == RPair("pm")

\* The calls of a detector callback and its updatePowerState
\* (main.go:119-176, :237, :255, :265-266), made one after the other with
\* no mutex held in between: a method of the pauser (IsPaused, Pause,
\* Resume, SyncState: manager.go:301-302, :332-333, :355-356, :362-363) or
\* of the power manager (SetPowersave, SetPerformance, SetState:
\* manager.go:73-75).
PauserCallLocks == Pair("pauser")
SetStateLocks == Pair("pm")

\* idle.go:125-139: the registration of the path, and the deferred removal
\* at the return.
watchDeviceLocks == Pair("idleMon") \o Pair("idleMon")

Programs ==
    [recordRequest |-> recordRequestLocks,
     timerEarly |-> timerLocks(FALSE),
     timerElapsed |-> timerLocks(TRUE),
     HandleMode |-> HandleModeLocks,
     HandleStatus |-> HandleStatusLocks,
     HandleActivity |-> HandleActivityLocks,
     pauserCall |-> PauserCallLocks,
     SetState |-> SetStateLocks,
     watchDevice |-> watchDeviceLocks]

\* The functions a goroutine runs.
ProgramsOf(t) ==
    IF t = "proxy" THEN {"recordRequest"}
    ELSE IF t = "timer" THEN {"timerEarly", "timerElapsed"}
    ELSE IF t = "api1" THEN {"HandleMode", "HandleStatus", "HandleActivity"}
    ELSE IF t \in {"idle", "steam"} THEN {"pauserCall", "SetState"}
    ELSE {"watchDevice"}

\* A goroutine between two functions; the timer before time.AfterFunc has
\* started it; the timer started.
Rest == [prog |-> "none", i |-> 0, waits |-> FALSE]
Armed == [prog |-> "armed", i |-> 0, waits |-> FALSE]

Running(t) == pc[t].i > 0
OpsOf(t) == Programs[pc[t].prog]
Returning(t) == Running(t) /\ pc[t].i = Len(OpsOf(t)) + 1
NextOp(t) == IF Running(t) /\ ~Returning(t) THEN OpsOf(t)[pc[t].i] ELSE Op("none", "")

RECURSIVE Held(_, _)
\* The locks a function holds once it has made its first n calls.
Held(ops, n) ==
    IF n = 0 THEN {}
    ELSE LET h == Held(ops, n - 1)
             o == ops[n]
         IN IF o.op = "Lock" THEN h \cup {[mu |-> o.mu, excl |-> TRUE]}
            ELSE IF o.op = "RLock" THEN h \cup {[mu |-> o.mu, excl |-> FALSE]}
            ELSE IF o.op = "Unlock" THEN h \ {[mu |-> o.mu, excl |-> TRUE]}
            ELSE IF o.op = "RUnlock" THEN h \ {[mu |-> o.mu, excl |-> FALSE]}
            ELSE h

HeldAt ==
    [prog \in DOMAIN Programs |->
        [n \in 0..Len(Programs[prog]) |-> Held(Programs[prog], n)]]

HeldBy(t) == IF Running(t) THEN HeldAt[pc[t].prog][pc[t].i - 1] ELSE {}

Holders(m) == {t \in Tasks : \E h \in HeldBy(t) : h.mu = m}
Writers(m) == {t \in Tasks : [mu |-> m, excl |-> TRUE] \in HeldBy(t)}

\* The goroutines inside Lock(): sync.RWMutex lets no new reader in while a
\* writer waits.
Waiting(m) == {t \in Tasks : pc[t].waits /\ NextOp(t).mu = m}

\* Whom the next call of t has to wait for.
WaitsOn(t) ==
    LET o == NextOp(t)
    IN IF o.op = "Lock" THEN Holders(o.mu)
       ELSE IF o.op = "RLock" THEN Writers(o.mu) \cup Waiting(o.mu)
       ELSE {}

Advance(t) == pc' = [pc EXCEPT ![t] = [prog |-> pc[t].prog, i |-> pc[t].i + 1, waits |-> FALSE]]

LockRest == UNCHANGED <<engineVars, pauserVars, pmVars, osVars, rd, calls, resp, events, monVars>>

\* A request arrives, a detector notifies, a device appears, the timer fires.
Begin(t, prog) ==
    /\ pc[t] = IF t = "timer" THEN Armed ELSE Rest
    /\ pc' = [pc EXCEPT ![t] = [prog |-> prog, i |-> 1, waits |-> FALSE]]
    /\ LockRest

\* Lock() or RLock() returns.
Acquire(t) ==
    /\ NextOp(t).op \in {"Lock", "RLock"}
    /\ WaitsOn(t) = {}
    /\ Advance(t)
    /\ LockRest

\* Lock() finds the mutex taken and queues.
Queue(t) ==
    /\ NextOp(t).op = "Lock"
    /\ WaitsOn(t) # {}
    /\ ~pc[t].waits
    /\ pc' = [pc EXCEPT ![t].waits = TRUE]
    /\ LockRest

Release(t) ==
    /\ NextOp(t).op \in {"Unlock", "RUnlock"}
    /\ Advance(t)
    /\ LockRest

\* config.go:308-313: the timer is stopped and started anew; a function of
\* the timer that already runs goes on.
AfterFunc(t) ==
    /\ NextOp(t).op = "AfterFunc"
    /\ pc' = [pc EXCEPT ![t] = [prog |-> pc[t].prog, i |-> pc[t].i + 1, waits |-> FALSE],
                        !["timer"] = IF @ = Rest THEN Armed ELSE @]
    /\ LockRest

Return(t) ==
    /\ Returning(t)
    /\ pc' = [pc EXCEPT ![t] = Rest]
    /\ LockRest

InitLocks ==
    /\ InitCommon
    /\ NoDetector /\ NoTicker /\ NoWatchers /\ NoEnergy /\ UsualEnv
    /\ GameKnown(0)
    /\ currentMode = "performance"
    /\ sysProfile = "performance"
    /\ parent = InitParent
    /\ stopped = {}
    /\ pc \in {[t \in DaemonTasks |-> Rest], [t \in WatcherTasks |-> Rest]}

LocksNext ==
    \E t \in Tasks :
        \/ \E prog \in ProgramsOf(t) : Begin(t, prog)
        \/ Acquire(t) \/ Queue(t) \/ Release(t) \/ AfterFunc(t) \/ Return(t)

SpecLocks == InitLocks /\ [][LocksNext]_vars

\* ------------------------------------------------- Ollama group matching
\* The configured groups, in configuration order, each with any list of
\* entries.
GroupNames == <<"lan", "vpn">>

EntryLists == UNION {[1..n -> Entries] : n \in 0..MaxEntries}

Configs ==
    {[i \in 1..Len(GroupNames) |-> [Name |-> GroupNames[i], CIDRs |-> lists[i]]] :
        lists \in [1..Len(GroupNames) -> EntryLists]}

InitStats ==
    /\ InitCommon
    /\ NoDetector /\ TickerAtRest /\ NoWatchers /\ NoEnergy /\ UsualEnv
    /\ hotplug = TRUE
    /\ groups \in Configs
    /\ reqIP = "" /\ matched = Pending /\ NoRequests
    /\ GameKnown(0)
    /\ currentMode = "performance"
    /\ sysProfile = "performance"
    /\ parent = InitParent
    /\ stopped = {}
    /\ pc = [t \in Threads |-> "wait"]

StatsNext == CallMatchGroup \/ \E ip \in Texts : Request(ip)

SpecStats == InitStats /\ [][StatsNext]_vars

\* ------------------------------------------------------------ properties
\* The calls an execution of updatePowerState by t has made, once its mode
\* call is past the locked section.
Decided(t) == pc[t] = "u175" /\ pmStep[t] # 1
Ops(t) == {calls[t][i].op : i \in 1..Len(calls[t])}
LastCall(t) == calls[t][Len(calls[t])]

\* The non-idle branch of updatePowerState as the claims C1 and C3 describe
\* it: Performance is requested and applied, nothing is paused or throttled,
\* and a game found paused is resumed first and left Running.
ForcedPerformance(t) ==
    /\ Ops(t) \cap {"Pause", "SetPowersave"} = {}
    /\ LastCall(t).op = "SetPerformance"
    /\ LastCall(t).after = "performance"
    /\ rd[t].paused =>
          /\ Len(calls[t]) = 2
          /\ calls[t][1].op = "Resume"
          /\ ~calls[t][1].paused

\* C1: an execution of updatePowerState that reads remote-play active and a
\* game running requests Performance whatever it read for idle: it calls
\* neither Pause nor SetPowersave, the mode is Performance when its mode
\* call leaves the locked section, and if it found the game paused it has
\* called Resume before, which left the pauser Running.
C1_RemotePlayGameForcesPerformance ==
    \A t \in Detectors :
        (Decided(t) /\ rd[t].rp /\ rd[t].game) => ForcedPerformance(t)

\* C1 witness: idle, remote-play and game all read true, the game was paused
\* and this execution has resumed it and asked for Performance.
C1_Witness ==
    \E t \in Detectors :
        /\ Decided(t) /\ rd[t].rp /\ rd[t].game /\ rd[t].idle /\ rd[t].paused
        /\ LastCall(t).op = "SetPerformance"

\* C2 (as claimed): an execution of updatePowerState that reads idle and not
\* (remote-play and game) calls SetPowersave, and the mode is Powersave when
\* that call leaves the locked section; it calls neither Resume nor
\* SetPerformance.  If it reads a running game with pid > 0 and finds the
\* pauser not paused, Pause(gamePID) is called before the mode call and
\* leaves the pauser Paused.  If it finds the pauser paused it calls no
\* Pause, and a Pause that meets a paused pauser sends no signal.
C2_IdleForcesPowersaveAndPause ==
    \A t \in Detectors :
        (Decided(t) /\ rd[t].idle /\ ~(rd[t].rp /\ rd[t].game)) =>
            /\ Ops(t) \cap {"Resume", "SetPerformance"} = {}
            /\ LastCall(t).op = "SetPowersave"
            /\ LastCall(t).after = "powersave"
            /\ (rd[t].pw /\ ~rd[t].paused) =>
                  /\ Len(calls[t]) = 2
                  /\ calls[t][1].op = "Pause"
                  /\ calls[t][1].paused
            /\ (rd[t].pw /\ rd[t].paused) => "Pause" \notin Ops(t)
            /\ \A i \in 1..Len(calls[t]) :
                  (calls[t][i].op = "Pause" /\ calls[t][i].was) =>
                      calls[t][i].sent = NoSignals

\* C3: an execution of updatePowerState that reads idle false requests
\* Performance whether or not it reads a game or remote-play: the mode is
\* Performance when its mode call leaves the locked section, and a game
\* found paused has been resumed before the mode call and left Running.
C3_ActiveResumesAndPerformance ==
    \A t \in Detectors :
        (Decided(t) /\ ~rd[t].idle) => ForcedPerformance(t)

\* C3 witness: idle read false with neither remote-play nor a game forcing
\* it, a paused game resumed, Performance applied.
C3_Witness ==
    \E t \in Detectors :
        /\ Decided(t) /\ ~rd[t].idle /\ ~rd[t].rp /\ rd[t].paused
        /\ calls[t][1].op = "Resume" /\ calls[t][1].sent.sig = "CONT"
        /\ LastCall(t).after = "performance"

\* A mode call of the request goroutine t has returned.
Returned(t) == pc[t] = "respond" /\ pmStep[t] = 0

ProfileSets(t) == Cardinality({i \in 1..Len(issued[t]) : issued[t][i] = "profile"})

\* C4: a SetPerformance or SetPowersave call leaves currentMode at its mode;
\* a call that finds currentMode equal to its mode issues no external action
\* and leaves currentMode as it was; a call that changes the mode sets the
\* profile once.  (So of two calls of SetPerformance in a row the second
\* finds "performance" and issues nothing: the profile is set once, by the
\* first, when that one changed the mode.)
C4_ModeIdempotent ==
    \A t \in Callers :
        Returned(t) =>
            /\ calls[t][1].after = calls[t][1].mode
            /\ calls[t][1].before = calls[t][1].mode =>
                  /\ issued[t] = <<>>
                  /\ calls[t][1].after = calls[t][1].before
            /\ calls[t][1].before # calls[t][1].mode => ProfileSets(t) = 1

\* C4 witness: a SetPerformance call has returned that found the mode at
\* performance and issued nothing, and the other request's call has
\* switched to powersave.
C4_Witness ==
    \E t \in Callers :
        /\ Returned(t)
        /\ calls[t][1].mode = "performance" /\ calls[t][1].before = "performance"
        /\ issued[t] = <<>>
        /\ \E u \in Callers \ {t} :
              calls[u] # <<>> /\ calls[u][1].after = "powersave"

InCallback(t) == pc[t] \notin {"wait", "startup", "st235", "st237", "st240"}

Quiescent == \A t \in Detectors : pc[t] = "wait" /\ pmStep[t] = 0

\* C5 (as claimed): once every callback has returned, the applied mode and
\* the pauser state are the policy's answer on the facts as they stand,
\* whatever the interleaving the callbacks ran in.
C5_OrderIndependent ==
    Quiescent =>
        /\ currentMode = (IF ShouldIdle(isIdle, isRemotePlay, isGameRunning)
                          THEN "powersave" ELSE "performance")
        /\ isPaused = (ShouldIdle(isIdle, isRemotePlay, isGameRunning)
                          /\ PauseWanted(isGameRunning, gamePID))

\* C6 (as claimed): no two detector callbacks are in progress at once.
C6_UpdatesMutuallyAtomic ==
    \A t1, t2 \in Detectors : (InCallback(t1) /\ InCallback(t2)) => t1 = t2

RECURSIVE IsAncestor(_, _, _)
\* a is the parent of p, or of its parent, and so on (field 4 of
\* /proc/<pid>/stat, read at manager.go:441-447)
IsAncestor(par, a, p) ==
    /\ p \in DOMAIN par
    /\ par[p] # 0
    /\ (par[p] = a \/ IsAncestor(par, a, par[p]))

Descendants(par, root) == {p \in DOMAIN par : IsAncestor(par, root, p)}

\* C8: a Pause that meets a paused pauser sends no signal, leaves the
\* recorded set as it was and returns nil; after a Pause that returned nil,
\* the first or any further one, IsPaused() is true.
C8_PauseIdempotent ==
    lastOp.op = "Pause" =>
        /\ lastOp.was =>
              /\ lastSignals = NoSignals
              /\ pausedPIDs = lastOp.set
              /\ lastErr = "nil"
        /\ lastErr = "nil" => IsPaused

\* C8 witness: a second Pause, on a live root that is not in the recorded
\* set, has left the pauser as the first one made it.
C8_Witness ==
    /\ lastOp.op = "Pause" /\ lastOp.was
    /\ lastOp.arg \in Alive(parent)
    /\ lastOp.arg \notin Range(pausedPIDs)
    /\ IsPaused

\* C9: a Pause with rootPID > 0 that meets a running pauser sends the stop
\* signal to the root and to every descendant it has in the process table
\* at that moment, to each once and to nothing else, records the pids it
\* signalled, and leaves the pauser Paused.
C9_PauseStopsWholeTree ==
    (lastOp.op = "Pause" /\ ~lastOp.was /\ lastOp.arg > 0) =>
        /\ lastSignals.sig = "STOP"
        /\ Range(lastSignals.pids) = {lastOp.arg} \cup Descendants(lastOp.tree, lastOp.arg)
        /\ Len(lastSignals.pids) = Cardinality(Range(lastSignals.pids))
        /\ pausedPIDs = lastSignals.pids
        /\ IsPaused

\* C9 witness: the paused root had a child and a grandchild.
C9_Witness ==
    /\ lastOp.op = "Pause" /\ ~lastOp.was /\ lastOp.arg > 0
    /\ \E c, g \in PIDs : lastOp.tree[c] = lastOp.arg /\ lastOp.tree[g] = c
    /\ Len(pausedPIDs) >= 3

\* C10: a Resume that meets a paused pauser sends the continue signal to the
\* recorded pids and to nothing else, empties the set and leaves the pauser
\* Running; a Resume that meets a running pauser sends nothing and changes
\* nothing.
C10_ResumeContinuesRecorded ==
    lastOp.op = "Resume" =>
        /\ lastOp.was =>
              /\ lastSignals = [sig |-> "CONT", pids |-> lastOp.set]
              /\ pausedPIDs = <<>>
              /\ ~IsPaused
        /\ ~lastOp.was =>
              /\ lastSignals = NoSignals
              /\ pausedPIDs = lastOp.set
              /\ ~IsPaused

\* C10 witness: a Resume has continued a recorded tree of two or more.
C10_Witness ==
    /\ lastOp.op = "Resume" /\ lastOp.was
    /\ Len(lastOp.set) >= 2
    /\ lastSignals.sig = "CONT"
    /\ ~IsPaused

\* C11: a SyncState whose process is there and in state T leaves the pauser
\* Paused with the root and all its descendants recorded, each once, so
\* that Resume continues the whole tree; one whose process is there in any
\* other state leaves it Running with an empty set.
C11_SyncStateAdopts ==
    (lastOp.op = "SyncState" /\ lastOp.arg \in Alive(lastOp.tree)) =>
        IF lastOp.wasT
        THEN /\ IsPaused
             /\ Range(pausedPIDs) = {lastOp.arg} \cup Descendants(lastOp.tree, lastOp.arg)
             /\ Len(pausedPIDs) = Cardinality(Range(pausedPIDs))
        ELSE /\ ~IsPaused
             /\ pausedPIDs = <<>>

\* C11 witness: a pauser that was Running has adopted a stopped game and
\* its child.
C11_Witness ==
    /\ lastOp.op = "SyncState" /\ lastOp.wasT /\ ~lastOp.was
    /\ \E c \in PIDs : lastOp.tree[c] = lastOp.arg
    /\ IsPaused /\ Len(pausedPIDs) >= 2

\* The processes findGameRoot visits from pid, the detected one first: each
\* the parent of the one before, while they are alive, up to MaxDepth.
RECURSIVE Chain(_, _, _)
Chain(par, p, k) ==
    IF k = 0 \/ p \notin Alive(par) THEN <<>>
    ELSE <<p>> \o Chain(par, par[p], k - 1)

Visited == Chain(parent, gameRoot.pid, MaxDepth)
IsWineserver(p) == Contains(comm[p], "wineserver")
IsReaper(p) == Contains(comm[p], "reaper")

\* C12 (as claimed): the root findGameRoot returns for a live process is
\* never a process whose name contains "reaper".
C12_RootNeverReaper ==
    (gameRoot.pid # 0 /\ gameRoot.pid \in Alive(parent)) => ~IsReaper(gameRoot.root)

\* C13: the first visited process whose name contains "wineserver" or
\* "reaper" decides the result: a wineserver is returned itself, the
\* detected process included; at a reaper that is not a wineserver the
\* process visited just before it is returned.
C13_WineserverBeforeReaper ==
    gameRoot.pid # 0 =>
        \A k \in 1..Len(Visited) :
            (/\ IsWineserver(Visited[k]) \/ IsReaper(Visited[k])
             /\ \A j \in 1..(k - 1) : ~IsWineserver(Visited[j]) /\ ~IsReaper(Visited[j]))
            => /\ IsWineserver(Visited[k]) => gameRoot.root = Visited[k]
               /\ (~IsWineserver(Visited[k]) /\ k > 1) => gameRoot.root = Visited[k - 1]

C13_Witness ==
    /\ gameRoot.pid # 0
    /\ Len(Visited) = 3
    /\ comm[Visited[1]] = "game"
    /\ comm[Visited[2]] = "wineserver-reaper"
    /\ comm[Visited[3]] = "reaper"
    /\ gameRoot.root = Visited[2]

ExampleTable == [p \in 2..5 |-> IF p = 2 THEN 1 ELSE IF p = 5 THEN 4 ELSE 2]

\* C14: on an acyclic parent table findAllDescendants(root) returns the
\* transitive descendants of root and nothing else, each once and without
\* root; on the table {1:[2], 2:[3,4], 4:[5]} and root 2 these are 3, 4, 5.
C14_DescendantsExact ==
    /\ \A root \in PIDs :
          LET d == findAllDescendants(parent, root)
          IN /\ Range(d) = Descendants(parent, root)
             /\ Len(d) = Cardinality(Range(d))
             /\ root \notin Range(d)
    /\ Range(findAllDescendants(ExampleTable, 2)) = {3, 4, 5}
    /\ Len(findAllDescendants(ExampleTable, 2)) = 3

C14_Witness ==
    /\ lastOp.op = "Pause" /\ ~lastOp.was /\ lastOp.tree = parent
    /\ \E c, g \in PIDs : parent[c] = lastOp.arg /\ parent[g] = c
    /\ Len(pausedPIDs) = 3
    /\ Range(Tail(pausedPIDs)) = Descendants(parent, lastOp.arg)

Alternates(log) ==
    \A i \in 1..Len(log) : log[i] = IF i % 2 = 1 THEN "onIdle" ELSE "onActive"

\* C15: the callbacks are edge-triggered: onIdle and onActive alternate,
\* onIdle first; a step that changes the ticker's idle flag makes exactly
\* the one call that goes with the new value, and a step that leaves the
\* flag as it was makes none.
C15_CallbacksEdgeTriggered ==
    [][/\ Alternates(cbLog')
       /\ tickIdle' = tickIdle => cbLog' = cbLog
       /\ tickIdle' # tickIdle =>
              cbLog' = Append(cbLog, IF tickIdle' THEN "onIdle" ELSE "onActive")]_vars

C15_Witness == cbLog = <<"onIdle", "onActive", "onIdle">> /\ tickIdle

C17_ActivityClockMonotone == [][lastActivity' >= lastActivity]_vars

\* C18 (as claimed): after a successful read the watcher goes on to advance
\* lastActivity exactly when the read brought an event that counts: on a js
\* node one with neither the init flag nor an axis value strictly between
\* -4000 and 4000, on any other node every read.
C18_JoystickFilter ==
    \A w \in Watchers :
        wread[w].n > 0 => (wpc[w] = "store" <=> wread[w].acts)

\* The watchers of path that hold the device: opening it or in the read
\* loop.
Watching(path) == {w \in Watchers : w[1] = path /\ wpc[w] \in {"open", "read", "store"}}

\* The watchers of path between their registration and the end of their
\* deferred clean-up.
InFlight(path) ==
    {w \in Watchers : w[1] = path /\ wpc[w] \in {"dedup", "open", "read", "store", "defer"}}

C21_RingRollover ==
    [][/\ hourIndex' \in 0..167
       /\ lastSample' # NoSample =>
             IF lastSample'.gap >= 1
             THEN /\ hourIndex' = (hourIndex + 1) % 168
                  /\ hourlyEnergy' = [hourlyEnergy EXCEPT ![hourIndex'] = lastSample'.e]
             ELSE /\ hourIndex' = hourIndex
                  /\ hourlyEnergy' = [hourlyEnergy EXCEPT ![hourIndex] = @ + lastSample'.e]]_vars

C21_Witness ==
    /\ lastSample = [e |-> 0, gap |-> 2]
    /\ rolls = 168 /\ hourIndex = 0
    /\ ledger[0] = 2 /\ ledger[1] = 1
    /\ hourlyEnergy[0] = 0 /\ hourlyEnergy[1] = 1

RECURSIVE SumOver(_, _)
SumOver(f, S) ==
    IF S = {} THEN 0
    ELSE LET h == CHOOSE x \in S : TRUE IN f[h] + SumOver(f, S \ {h})

\* The energy added during the last n hours, the current one included.
AddedWithin(n) == SumOver(ledger, {h \in HotHours : h <= rolls /\ rolls - h < n})

\* C22: the 24h total is the energy added during the current hour and the
\* 23 before it, the 7d total the energy added during the current hour and
\* the 167 before it: nothing older is left in it; and the 24h total is
\* never above the 7d total.
C22_EnergyTotals ==
    report # NoReport =>
        /\ report.sum24h = AddedWithin(24)
        /\ report.sum7d = AddedWithin(168)
        /\ report.sum24h <= report.sum7d

C22_Witness ==
    /\ report = [sum24h |-> 1, sum7d |-> 1]
    /\ rolls = 169 /\ hourIndex = 1
    /\ ledger[0] = 1 /\ ledger[1] = 1 /\ ledger[160] = 1

\* The mode call of the client's last accepted request has returned.
Answered(t) == resp[t].code = "200" /\ resp[t].req # NoRequest

\* C23: when external actions of a SetPerformance or SetPowersave call fail,
\* the call still attempts every action of its sequence, currentMode stays
\* at the requested mode, and the request is answered with success (never a
\* 5xx): nothing is rolled back or retried.
C23_ApplyFailuresIgnored ==
    /\ resp[Client].code \in {"", "200", "400", "405"}
    /\ Returned(Client) \/ Answered(Client) =>
          LET call == calls[Client][1]
          IN /\ call.after = call.mode /\ currentMode = call.mode
             /\ call.before # call.mode =>
                   /\ issued[Client] = ApplySequence(call.mode)
                   /\ failed[Client] \subseteq Range(issued[Client])

\* C23 witness: a powersave request is answered 200 although the profile
\* tool and the ASPM write failed; the later actions were attempted.
C23_Witness ==
    /\ Answered(Client)
    /\ resp[Client].req.body = "powersave"
    /\ failed[Client] = {"profile", "aspm"}
    /\ currentMode = "powersave"
    /\ sysProfile = "performance"
    /\ issued[Client][6] = "network"

\* C24: when the signal cannot be delivered to some of the target pids
\* (process gone, or kill refused), Pause still signals every other target,
\* records the full target set, becomes Paused and returns nil; Resume
\* still signals every other recorded pid, clears the recorded set, becomes
\* Running and returns nil.
C24_SignalFailuresIgnored ==
    [][/\ ~isPaused /\ parent' = parent /\ lastOp'.op = "Pause" /\ lastOp'.arg > 0 =>
             /\ lastErr' = "nil" /\ isPaused'
             /\ pausedPIDs' = Targets(parent, lastOp'.arg)
             /\ lastSignals' = [sig |-> "STOP", pids |-> pausedPIDs']
             /\ \A pid \in Range(pausedPIDs') : Reached(parent, pid) => pid \in stopped'
       /\ isPaused /\ parent' = parent /\ lastOp'.op = "Resume" =>
             /\ lastErr' = "nil" /\ ~isPaused' /\ pausedPIDs' = <<>>
             /\ lastSignals' = [sig |-> "CONT", pids |-> pausedPIDs]
             /\ \A pid \in Range(pausedPIDs) : Reached(parent, pid) => pid \notin stopped'
      ]_vars

\* C24 witness: Resume has met a recorded set of three or more whose root
\* refuses the signal (or is gone); the other recorded pids run again and
\* the pauser is Running.
C24_Witness ==
    /\ lastOp.op = "Resume" /\ lastOp.was /\ parent = lastOp.tree
    /\ Len(lastOp.set) >= 3
    /\ ~Reached(parent, lastOp.set[1])
    /\ pausedPIDs = <<>> /\ lastErr = "nil"
    /\ \E i \in 2..Len(lastOp.set) : Reached(parent, lastOp.set[i])
    /\ \A i \in 2..Len(lastOp.set) : lastOp.set[i] \notin stopped
    /\ ~isPaused

Position(seq, a) == CHOOSE i \in 0..Len(seq) : (i = 0 /\ a \notin Range(seq)) \/ (i > 0 /\ seq[i] = a)

\* C25: the external actions of a transition into powersave include the
\* auto-tuning and, after it, the forcing of the network devices to full
\* power, so that the transition leaves them at power/control "on" (the
\* effect of that write, when the write is not refused); the actions of a
\* transition into performance include the USB/audio latency action and
\* neither of the two, and leave the network devices as they were.
C25_NetworkForcedAfterAutoTune ==
    [][pmStep[Client] = 2 /\ pmStep'[Client] = 0 =>
          LET seq == issued'[Client]
          IN IF pmMode[Client] = "powersave"
             THEN /\ 0 < Position(seq, "powertop")
                  /\ Position(seq, "powertop") < Position(seq, "network")
                  /\ "latency" \notin Range(seq)
                  /\ "network" \notin failed'[Client] => netPower' = "on"
             ELSE /\ "latency" \in Range(seq)
                  /\ "powertop" \notin Range(seq) /\ "network" \notin Range(seq)
                  /\ netPower' = netPower
      ]_vars

\* C25 witness: a powersave request is answered on a machine where the
\* auto-tuning can fail but did not: auto-tuning and network step both took
\* effect, in this order, and the network devices are at "on".
C25_Witness ==
    /\ Answered(Client)
    /\ resp[Client].req.body = "powersave"
    /\ "powertop" \in flaky
    /\ failed[Client] = {}
    /\ issued[Client][5] = "powertop" /\ issued[Client][6] = "network"
    /\ netPower = "on"

\* C26: a request to /mode that is not a POST, whose body does not decode,
\* or whose mode is neither "performance" nor "powersave" is answered 4xx
\* and leaves currentMode, the facts, the external state and the record of
\* issued actions as they were, with no mode call made; a POST of
\* "performance" calls SetPerformance and a POST of "powersave" calls
\* SetPowersave.
C26_BadModeRequestRejected ==
    [][/\ pc[Client] = "wait" =>
             LET req == resp'[Client].req
             IN IF req.method = "POST" /\ req.body \in {"performance", "powersave"}
                THEN /\ pmStep'[Client] = 1 /\ pmMode'[Client] = req.body
                     /\ resp'[Client].code = ""
                ELSE /\ resp'[Client].code \in {"400", "405"}
                     /\ UNCHANGED <<currentMode, pmFacts, sysProfile, netPower>>
                     /\ UNCHANGED <<pmStep, pmMode, issued, calls, pauserVars, osVars>>
       /\ resp'[Client].code = "200" =>
             /\ Len(calls'[Client]) = 1
             /\ resp'[Client].req.body = "performance" => calls'[Client][1].op = "SetPerformance"
             /\ resp'[Client].req.body = "powersave" => calls'[Client][1].op = "SetPowersave"
      ]_vars

\* C26 witness: after a powersave request was served, a POST of the unknown
\* mode "auto" has been answered 400; the mode is still powersave.
C26_Witness ==
    /\ resp[Client] = [code |-> "400", body |-> "error", req |-> [method |-> "POST", body |-> "auto"]]
    /\ currentMode = "powersave"
    /\ calls[Client][1].op = "SetPowersave"
    /\ pmStep[Client] = 0

\* C27 (as claimed): when ResetActivity, having read the time in the
\* current second, stores it, the seconds until idle are the full timeout;
\* a tick that reads a lastActivity not more than a second old while the
\* monitor is flagged idle makes it active and calls onActive once; the
\* time until idle is never negative.
C27_ResetRestartsCountdown ==
    [][/\ (wpc[ApiReset] = "store" /\ wpc'[ApiReset] = "none" /\ wnow[ApiReset] = now) =>
             SecondsUntilIdle(TimeUntilIdle(lastActivity', now', frac')) = Timeout
       /\ (tickLast # -1 /\ tickLast' = -1 /\ tickIdle /\ now - tickLast <= 1) =>
             ~tickIdle' /\ cbLog' = Append(cbLog, "onActive")
       /\ untilIdle' # untilIdle => untilIdle' >= 0
      ]_vars

\* C28 (as claimed): during a remote-play session every js path that a scan
\* of the detector has returned (and whose device is still there) has a
\* watcher started for it; this holds from the step that makes the session
\* active, so before updatePowerState recomputes the policy.
C28_DiscoveredPathsWatched == rpActive => discovered \subseteq added

\* An entry covers the request's IP: as a network it contains the address,
\* as a single address it is the very text of the IP.
Covers(entry, ip) ==
    \/ ParseIP(ip) \in ParseCIDR(entry)
    \/ ParseCIDR(entry) = NoNet /\ ParseIP(entry) # NoAddr /\ entry = ip

Hits == {i \in 1..Len(groups) :
            \E j \in 1..Len(groups[i].CIDRs) : Covers(groups[i].CIDRs[j], reqIP)}

\* C29: MatchGroup returns the name of the first group, in configuration
\* order, with an entry that covers the IP (a CIDR that contains it, a
\* single address that equals it), and the empty string when no group has
\* one or the IP does not parse.
C29_MatchGroupFirstMatch ==
    matched # Pending =>
        IF ParseIP(reqIP) = NoAddr \/ Hits = {}
        THEN matched = ""
        ELSE \E i \in Hits : matched = groups[i].Name /\ \A k \in Hits : i <= k

\* C29 witness: both groups cover the IP, the first by a single address and
\* the second by a network; the first group's name is returned.
C29_Witness ==
    /\ reqIP = "10.0.1.1"
    /\ groups[1].CIDRs = <<"junk", "10.0.1.1">>
    /\ groups[2].CIDRs = <<"10.0.0.0/16">>
    /\ matched = "lan"

\* C30 (as claimed): when SyncState has been called for a pid whose
\* /proc/<pid>/stat it could not read, the pauser is Running and its
\* recorded set is empty.
C30_SyncStateUnreadableIsRunning ==
    (lastOp.op = "SyncState" /\ lastOp.arg \notin Alive(lastOp.tree)) =>
        ~isPaused /\ pausedPIDs = <<>>

\* C31 (as claimed): once every concurrent SetPerformance / SetPowersave call
\* has run to completion, the platform profile last applied is the one of
\* the recorded currentMode.
CallersAtRest == \A t \in Callers : pc[t] = "wait" /\ pmStep[t] = 0

C31_AppliedProfileMatchesMode ==
    CallersAtRest => sysProfile = ProfileOf(currentMode)

\* C32 (as claimed): every process the pauser has stopped and not yet
\* continued is in the recorded pausedPIDs, so that the next Resume
\* continues it; neither SyncState nor a new game pid drops one.
C32_NoOrphanedStoppedProcess == stopped \subseteq Range(pausedPIDs)

\* C33 (as claimed): whenever the idle fact is false and no update is in
\* progress, the pauser is not Paused; a game found stopped at startup on a
\* machine that is not idle is resumed before any detector callback fires.
C33_ActiveMeansNotPaused == (Quiescent /\ ~isIdle) => ~isPaused

\* The remote-play detector's check calls onStart (main.go:205-214) or
\* onStop (main.go:216-220) in this step.
CallsOnStart == pc["rp"] = "wait" /\ pc'["rp"] = "u128" /\ isRemotePlay'
CallsOnStop == pc["rp"] = "wait" /\ pc'["rp"] = "u128" /\ ~isRemotePlay'

\* The callbacks a poll of the game detector owes, given the pid last
\* reported and the poll's result.
Owed(last, r) ==
    IF r.err THEN <<>>
    ELSE IF r.root > 0 /\ r.root # last THEN <<OnGameStart(r.root)>>
    ELSE IF r.root = 0 /\ last > 0 THEN <<OnGameStop>>
    ELSE <<>>

\* C34: each detector notifies exactly once per edge.  onStart is called
\* only by a check that turns the inactive detector active and onStop only
\* by one that turns the active detector inactive, so that they alternate
\* starting with onStart.  A poll of the game detector calls onGameStart
\* exactly when it finds a pid other than the one last reported, also right
\* after another pid, onGameStop exactly when it finds no game after one
\* was reported, and nothing when the scan fails, which also keeps the
\* last reported pid.
C34_OneNotificationPerEdge ==
    [][/\ CallsOnStart => ~rpActive /\ rpActive'
       /\ CallsOnStop => rpActive /\ ~rpActive'
       /\ rpActive' # rpActive => CallsOnStart \/ CallsOnStop
       /\ cbLog' = cbLog \o Owed(LastPID, gameRoot')
       /\ gameRoot'.err => LastPID' = LastPID
       /\ ~gameRoot'.err => LastPID' = gameRoot'.root]_vars

C34_Witness ==
    /\ cbLog = <<OnGameStart(2), OnGameStart(3), OnGameStop>>
    /\ gameRoot = ScanFailed
    /\ rpActive /\ pc["rp"] = "wait"
    /\ pmFacts.isRemotePlay

\* C35: the recorded pausedPIDs is empty exactly when the pauser is
\* Running, and a step that makes the pauser Paused or changes the set of a
\* Paused pauser (a Pause or a SyncState) leaves the root pid it was called
\* with in the set.
C35_PausedSetMatchesState ==
    /\ [](pausedPIDs = <<>> <=> ~isPaused)
    /\ [][isPaused' /\ (~isPaused \/ pausedPIDs' # pausedPIDs) =>
            /\ lastOp'.op \in {"Pause", "SyncState"}
            /\ lastOp'.arg \in Range(pausedPIDs')]_vars

C35_Witness ==
    /\ isPaused /\ pausedPIDs = <<2, 3>>
    /\ lastOp.op = "SyncState" /\ lastOp.arg = 2 /\ ~lastOp.was

\* C36 (as claimed): once the game-stop notification has been processed
\* (onGameStop and its updatePowerState have returned and no game has been
\* reported since), the pauser is Running with an empty recorded set and
\* the facts are isGameRunning = false, gamePID = 0, whatever the idle and
\* remote-play facts; the recomputation has paused nothing.
GameStopProcessed == pc["steam"] = "wait" /\ pmStep["steam"] = 0 /\ LastPID = 0

RECURSIVE Live(_, _)
\* The goroutines that can go on: those that wait for nobody, and, k times
\* over, those that wait only for goroutines that can go on.
Live(S, k) ==
    IF k = 0 THEN S
    ELSE Live(S \cup {t \in Tasks : WaitsOn(t) \subseteq S}, k - 1)

\* C37: no deadlock.  In every state each goroutine can go on or waits only
\* for goroutines that can; a function that returns holds no mutex; and the
\* mutexes are taken in one order: the only mutex under which another is
\* locked is the Ollama monitor's, which is never locked under another.
C37_NoDeadlock ==
    /\ Live({t \in Tasks : WaitsOn(t) = {}}, Cardinality(Tasks)) = Tasks
    /\ \A t \in Tasks :
          /\ Returning(t) => HeldBy(t) = {}
          /\ NextOp(t).op \in {"Lock", "RLock"} =>
                \A h \in HeldBy(t) : h.mu = "ollama" /\ NextOp(t).mu # "ollama"

\* The request recorder holds the monitor's mutex and waits for pm.mu, which
\* the API's mode request holds, while the timer's function and a detector
\* callback wait as well.
C37_Witness ==
    /\ Tasks = DaemonTasks
    /\ pc["proxy"].waits /\ NextOp("proxy").mu = "pm"
    /\ pc["api1"].prog = "HandleMode" /\ "api1" \in Writers("pm")
    /\ pc["timer"].prog = "timerElapsed" /\ WaitsOn("timer") # {}
    /\ WaitsOn("steam") # {} /\ WaitsOn("idle") # {}

\* C38 (as claimed): the inactivity timer of the Ollama monitor never puts
\* the system into powersave while the decision engine's facts say the
\* machine is not idle.
C38_TimerKeepsPerformanceWhenActive ==
    ~isIdle => currentMode = "performance"

\* findGameRoot has returned.
Returned39 == gameRoot.pid # 0 /\ gameRoot.root # 0

\* C39: findGameRoot terminates after visiting at most MaxDepth processes
\* on any parent table, cyclic ones included: every step of the walk either
\* returns or counts one more hop, and the hops never exceed MaxDepth.  It
\* returns the detected pid when the process it visited last cannot be
\* read, when that process matched neither naming rule and has a parent id
\* of at most 1, and when MaxDepth hops were made without a match.  Its
\* result is that of the function computed in one piece.
C39_WalkBoundedAndFallsBack ==
    /\ [](/\ gameRoot.visited <= MaxDepth /\ gameRoot.i <= MaxDepth
          /\ Returned39 =>
                /\ gameRoot.root = findGameRoot(parent, comm, gameRoot.pid)
                /\ gameRoot.i = MaxDepth => gameRoot.root = gameRoot.pid
                /\ gameRoot.i < MaxDepth /\ gameRoot.current \notin Alive(parent) =>
                      gameRoot.root = gameRoot.pid
                /\ (/\ gameRoot.i < MaxDepth
                    /\ gameRoot.current \in Alive(parent)
                    /\ Classify(comm[gameRoot.current]) = "other"
                    /\ parent[gameRoot.current] <= 1) => gameRoot.root = gameRoot.pid)
    /\ [][gameRoot.pid # 0 /\ gameRoot.root = 0 =>
             gameRoot'.root # 0 \/ gameRoot'.i = gameRoot.i + 1]_vars

\* A walk round a cycle of processes that match no rule: MaxDepth processes
\* visited, the detected pid returned.
C39_Witness ==
    /\ Returned39
    /\ gameRoot.visited = MaxDepth /\ gameRoot.i = MaxDepth
    /\ gameRoot.root = gameRoot.pid
    /\ parent[2] = 3 /\ parent[3] = 2

====
